---- MODULE Spec2Model ----
(***************************************************************************)
(* Statistical profiling and alert-candidate generation of the data        *)
(* quality pipeline (dagster_app/utils/statistics.py).                     *)
(*                                                                         *)
(* Cells are records [kind, v]: a null, an integer-valued number or a      *)
(* string that does not coerce to a number.  Floating-point quantities of  *)
(* the source are kept as exact rationals [num, den] or as scaled          *)
(* integers, so every threshold comparison the source makes is decided     *)
(* exactly; sums of powers that exceed the integer width are carried as    *)
(* arbitrary-precision naturals (sequences of base-10000 limbs).           *)
(* Row positions are 0-based as in the source; TLA+ sequences are 1-based, *)
(* so row position p is element p + 1.                                     *)
(***************************************************************************)
EXTENDS Integers, Sequences, FiniteSets, TLC

\* ---------------------------------------------------------------- bounds
MaxPos == 5        \* largest row position fed to _positions_to_ranges
MaxPosLen == 4     \* longest list of positions fed to _positions_to_ranges
MaxLen == 4        \* longest exhaustively enumerated column
MaxLead == 1       \* rows of filler before the block of a block column
MaxBlock == 10     \* longest block of a block column
MaxTailPairs == 26 \* pairs of filler rows after the block of a block column
MaxFrameRows == 3  \* most rows of an exhaustively enumerated table
MaxPairRows == 2   \* most rows of the tables of a two-table dataset
MaxStripeRows == 12 \* most rows of a table with a striped column
MaxCtxRows == 9    \* most rows of the table given to _extract_row_context
MaxRangeLen == 6   \* longest row range given to _extract_row_context
MaxSpread == 9     \* most 2s of a spread column
MaxNullRun == 6    \* longest run of nulls of a column with two runs
MaxKeyedRows == 3  \* most rows of a column with an index of its own
MaxCoerced == 3    \* rows of a column that mixes numbers and number-like strings

\* ------------------------------------------------------ program constants
MAX_ANOMALY_SAMPLES == 20
MAX_ALERT_CONTEXT_ROWS == 5
NULL_RATIO_WARNING_THRESHOLD == [num |-> 10, den |-> 100]
NULL_RATIO_CRITICAL_THRESHOLD == [num |-> 50, den |-> 100]
\* variant: a minimum distinct ratio of 0.01
distinct_ratio_min_threshold_halved == [num |-> 1, den |-> 100]
DISTINCT_RATIO_MIN_THRESHOLD == [num |-> 2, den |-> 100]
DOMINANT_CATEGORY_THRESHOLD == [num |-> 95, den |-> 100]
\* variant: an outlier ratio threshold of 0.04
outlier_ratio_warning_threshold_lower == [num |-> 4, den |-> 100]
OUTLIER_RATIO_WARNING_THRESHOLD == [num |-> 5, den |-> 100]
OUTLIER_RATIO_CRITICAL_THRESHOLD == [num |-> 15, den |-> 100]
SKEWNESS_WARNING_THRESHOLD == 2
KURTOSIS_WARNING_THRESHOLD == 3

VARIABLES
    pc,            \* position of the run
    positions,     \* input of _positions_to_ranges
    row_ranges,    \* its result
    max_run,       \* max_consecutive_run computed from row_ranges
    column_series, \* input of analyze_column: [index, values]
    column_statistics,  \* the ColumnStatistics analyze_column returned
    loaded_dataset, \* the loaded dataset: tables [name, df] in insertion order
    dataset_statistics, \* the DatasetStatistics compute_statistics returned
    alert_candidates, \* the AlertCandidates build_alert_candidates returned
    row_contexts,  \* the blocks _extract_row_context returned
    clock,         \* what datetime.utcnow() returns, in ticks
    previous_run,  \* dataset, statistics and candidates of the run before this one
    stored_alerts, \* the alert rows of the store persist_alerts writes to
    dataset_dir,   \* the dataset directory: whether it exists and the tables with a CSV file
    op_config,     \* the "tables" entry of the dataset configuration of load_dataset_op
    op_outcome     \* how load_dataset_op ended: its return value or the exception raised

\* the variables of the job runs and of the loader
jobvars == <<previous_run, stored_alerts, dataset_dir, op_config, op_outcome>>

vars == <<pc, positions, row_ranges, max_run, column_series, column_statistics,
          loaded_dataset, dataset_statistics, alert_candidates, row_contexts, clock, jobvars>>

\* ------------------------------------------------------- generic helpers
\* Body at the value of v, v being computed once
With(v, Body(_)) == CHOOSE r \in {Body(x) : x \in {v}} : TRUE

MinOf(S) == CHOOSE x \in S : \A y \in S : x <= y
MaxOf(S) == CHOOSE x \in S : \A y \in S : x >= y
Abs(x) == IF x < 0 THEN -x ELSE x

\* sorted(set(...)): the elements of the finite set of integers S in
\* ascending order
SortedSeq(S) ==
    IF S = {} THEN <<>>
    ELSE SelectSeq([i \in 1..(MaxOf(S) - MinOf(S) + 1) |-> MinOf(S) + i - 1],
                   LAMBDA x : x \in S)

SeqRange(s) == {s[i] : i \in DOMAIN s}

RECURSIVE SeqsUpTo(_, _)
\* all sequences over S of length at most n
SeqsUpTo(S, n) ==
    IF n = 0 THEN {<<>>}
    ELSE LET shorter == SeqsUpTo(S, n - 1)
         IN  shorter \cup {Append(s, x) : s \in {t \in shorter : Len(t) = n - 1}, x \in S}

RECURSIVE SumRange(_, _, _)
\* s[lo] + ... + s[hi], by halves
SumRange(s, lo, hi) ==
    IF lo > hi THEN 0
    ELSE IF lo = hi THEN s[lo]
    ELSE SumRange(s, lo, (lo + hi) \div 2) + SumRange(s, (lo + hi) \div 2 + 1, hi)
SumSeq(s) == SumRange(s, 1, Len(s))

\* n copies of x
Repeat(x, n) == [i \in 1..n |-> x]

RECURSIVE RepeatEach(_, _, _)
RepeatEach(distinct, s, k) ==
    IF k > Len(distinct) THEN <<>>
    ELSE Repeat(distinct[k], Cardinality({i \in DOMAIN s : s[i] = distinct[k]}))
         \o RepeatEach(distinct, s, k + 1)

\* the values of s in ascending order, repeats kept
SortInts(s) == RepeatEach(SortedSeq(SeqRange(s)), s, 1)

\* ------------------------------------------------------------- rationals
Ratio(n, d) == [kind |-> "ratio", num |-> n, den |-> d]
None == [kind |-> "none", num |-> 0, den |-> 1]
RatLeq(a, b) == a.num * b.den <= b.num * a.den
RatLt(a, b) == a.num * b.den < b.num * a.den
RatGeq(a, b) == RatLeq(b, a)

\* -------------------------------------- arbitrary-precision naturals
\* little-endian sequences of limbs in 0..9999
RECURSIVE BigOf(_)
BigOf(n) == IF n < 10000 THEN <<n>> ELSE <<n % 10000>> \o BigOf(n \div 10000)

RECURSIVE BigAddC(_, _, _)
BigAddC(a, b, carry) ==
    IF a = <<>> /\ b = <<>> THEN (IF carry = 0 THEN <<>> ELSE <<carry>>)
    ELSE LET x == IF a = <<>> THEN 0 ELSE a[1]
             y == IF b = <<>> THEN 0 ELSE b[1]
             t == x + y + carry
         IN  <<t % 10000>> \o BigAddC(IF a = <<>> THEN a ELSE Tail(a),
                                      IF b = <<>> THEN b ELSE Tail(b), t \div 10000)
BigAdd(a, b) == BigAddC(a, b, 0)

RECURSIVE BigMulLimb(_, _, _)
\* a times one limb k
BigMulLimb(a, k, carry) ==
    IF a = <<>> THEN (IF carry = 0 THEN <<>> ELSE <<carry>>)
    ELSE LET t == a[1] * k + carry
         IN  <<t % 10000>> \o BigMulLimb(Tail(a), k, t \div 10000)

RECURSIVE BigMul(_, _)
BigMul(a, b) ==
    IF b = <<>> THEN <<>>
    ELSE BigAdd(BigMulLimb(a, b[1], 0), <<0>> \o BigMul(a, Tail(b)))

RECURSIVE BigTrim(_)
\* without leading (most significant) zero limbs
BigTrim(a) ==
    IF a = <<>> THEN a
    ELSE IF a[Len(a)] = 0 THEN BigTrim(SubSeq(a, 1, Len(a) - 1)) ELSE a

RECURSIVE BigLeqT(_, _)
BigLeqT(a, b) ==
    IF Len(a) # Len(b) THEN Len(a) < Len(b)
    ELSE IF a = <<>> THEN TRUE
    ELSE IF a[Len(a)] # b[Len(b)] THEN a[Len(a)] < b[Len(b)]
    ELSE BigLeqT(SubSeq(a, 1, Len(a) - 1), SubSeq(b, 1, Len(b) - 1))
BigLeq(a, b) == BigLeqT(BigTrim(a), BigTrim(b))
BigIsZero(a) == BigTrim(a) = <<>>

RECURSIVE BigSumRange(_, _, _)
BigSumRange(s, lo, hi) ==
    IF lo > hi THEN <<>>
    ELSE IF lo = hi THEN s[lo]
    ELSE BigAdd(BigSumRange(s, lo, (lo + hi) \div 2), BigSumRange(s, (lo + hi) \div 2 + 1, hi))
BigSum(s) == BigSumRange(s, 1, Len(s))

\* ------------------------------------------------------------------ cells
NULL == [kind |-> "null", v |-> 0]
Num(n) == [kind |-> "num", v |-> n]
Str(i) == [kind |-> "str", v |-> i]
\* a string that reads as the number n
NumStr(n) == [kind |-> "numstr", v |-> n]
\* pd.to_numeric(x, errors="coerce"): a number is kept, a string that reads
\* as a number becomes that number, anything else becomes NaN
NaN == [kind |-> "nan", v |-> 0]
to_numeric(x) == IF x.kind \in {"num", "numstr"} THEN Num(x.v) ELSE NaN
\* pd.isna: None, and the NaN that stands for a missing value in a float
\* column
isna(x) == x.kind \in {"null", "nan"}

\* Series.to_dict() and the conversion of a row to dtype object box a numpy
\* scalar into the native Python value: numpy's NaN becomes a Python float
PyNaN == [kind |-> "pynan", v |-> 0]
maybe_box_native(x) == IF x.kind = "nan" THEN PyNaN ELSE x

\* _json_safe on a scalar.  The np.floating branch comes first and returns
\* float(value), so a NaN held as numpy floating comes back as the float
\* NaN; None stays None (null), and a Python float NaN becomes None in the
\* branch isinstance(value, float) and np.isnan(value).  Numbers and
\* strings are unchanged.
JsonNull == [kind |-> "json_null", v |-> 0]
FloatNaN == [kind |-> "float_nan", v |-> 0]
_json_safe(value) ==
    IF value.kind = "nan" THEN FloatNaN
    ELSE IF value.kind \in {"null", "pynan"} THEN JsonNull
    ELSE value

\* a pandas Series: the index keys and the cells, in row order
Series(index, values) == [index |-> index, values |-> values]
\* the default RangeIndex 0..n-1
RangeIndex(n) == [i \in 1..n |-> i - 1]
shape(s) == Len(s.values)
\* positions (1-based) of s whose cell satisfies the mask
Where(s, Mask(_)) == SelectSeq([i \in 1..shape(s) |-> i], LAMBDA i : Mask(s.values[i]))
\* the sub-series at the given 1-based positions
Take(s, ps) == Series([i \in 1..Len(ps) |-> s.index[ps[i]]], [i \in 1..Len(ps) |-> s.values[ps[i]]])
dropna(s) == Take(s, Where(s, LAMBDA x : ~isna(x)))

\* ------------------------------------------------- _positions_to_ranges
MkRange(start, end, count) == [start |-> start, end |-> end, count |-> count]

\* one pass of the for loop of _positions_to_ranges, at sorted_positions[i]
RangeStep(sp, st, i) ==
    LET pos == sp[i] IN
    IF pos = st.prev THEN st
    ELSE IF pos = st.prev + 1
         THEN [start |-> st.start, prev |-> pos, count |-> st.count + 1, acc |-> st.acc]
         ELSE [start |-> pos, prev |-> pos, count |-> 1,
               acc |-> Append(st.acc, MkRange(st.start, st.prev, st.count))]

RECURSIVE RangeLoop(_, _, _, _)
\* the passes lo..hi of that loop in order: the first half, then the second
RangeLoop(sp, st, lo, hi) ==
    IF lo > hi THEN st
    ELSE IF lo = hi THEN RangeStep(sp, st, lo)
    ELSE With(RangeLoop(sp, st, lo, (lo + hi) \div 2),
              LAMBDA first : RangeLoop(sp, first, (lo + hi) \div 2 + 1, hi))

\* the loop over sorted_positions[1:] and the append of the last range
RangesOf(sp) ==
    With(RangeLoop(sp, [start |-> sp[1], prev |-> sp[1], count |-> 1, acc |-> <<>>],
                   2, Len(sp)),
         LAMBDA st : Append(st.acc, MkRange(st.start, st.prev, st.count)))

\* variant: the positions are taken in the order given, not sorted and deduplicated
positions_to_ranges_unsorted(ps) ==
    IF ps = <<>> THEN <<>> ELSE RangesOf(ps)

_positions_to_ranges(ps) ==
    IF ps = <<>> THEN <<>> ELSE RangesOf(SortedSeq(SeqRange(ps)))

\* max((rng["count"] for rng in row_ranges), default=0)
MaxRangeCount(rr) == IF rr = <<>> THEN 0 ELSE MaxOf({rr[i].count : i \in DOMAIN rr})

\* ------------------------------------------------ _build_anomaly_summary
\* key -> ascending list of the row positions (0-based) holding that key
_build_position_lookup(index) ==
    [k \in SeqRange(index) |->
        SelectSeq([i \in 1..Len(index) |-> i - 1], LAMBDA p : index[p + 1] = k)]

\* values_series.loc[index_value], the first match when the key repeats;
\* original_series.iloc[position] on KeyError or without a values_series
SampleValue(original_series, values_series, index_value, position) ==
    IF values_series.index # <<>> /\ index_value \in SeqRange(values_series.index)
    THEN values_series.values[MinOf({i \in DOMAIN values_series.index :
                                        values_series.index[i] = index_value})]
    ELSE original_series.values[position + 1]

\* one pass of the for loop of _build_anomaly_summary: consumes one queued
\* position of the flagged key and keeps the first max_samples samples
AnomalyStep(original_series, values_series, anomaly_indices, st, i, max_samples) ==
    LET index_value == anomaly_indices[i]
        candidates == IF index_value \in DOMAIN st.lookup THEN st.lookup[index_value] ELSE <<>>
    IN  IF candidates = <<>> THEN st
        ELSE LET position == candidates[1]
                 sample == [row_number |-> position,
                            row_index |-> index_value,
                            value |-> _json_safe(SampleValue(original_series, values_series,
                                                             index_value, position))]
             IN  [lookup |-> [st.lookup EXCEPT ![index_value] = Tail(candidates)],
                  samples |-> IF Len(st.samples) >= max_samples THEN st.samples
                              ELSE Append(st.samples, sample),
                  positions |-> Append(st.positions, position)]

RECURSIVE AnomalyLoop(_, _, _, _, _, _, _)
\* the passes lo..hi of that loop in order: the first half, then the second
AnomalyLoop(original_series, values_series, anomaly_indices, st, lo, hi, max_samples) ==
    IF lo > hi THEN st
    ELSE IF lo = hi
         THEN AnomalyStep(original_series, values_series, anomaly_indices, st, lo, max_samples)
    ELSE With(AnomalyLoop(original_series, values_series, anomaly_indices, st,
                          lo, (lo + hi) \div 2, max_samples),
              LAMBDA first : AnomalyLoop(original_series, values_series, anomaly_indices,
                                         first, (lo + hi) \div 2 + 1, hi, max_samples))

NoSeries == Series(<<>>, <<>>)

\* variant: total_count counts the captured samples, not the flagged rows
build_anomaly_summary_counting_samples(original_series, anomaly_indices, values_series, max_samples) ==
    IF anomaly_indices = <<>>
    THEN [samples |-> <<>>, row_ranges |-> <<>>, total_count |-> 0, max_consecutive_run |-> 0]
    ELSE With(AnomalyLoop(original_series, values_series, anomaly_indices,
                          [lookup |-> _build_position_lookup(original_series.index),
                           samples |-> <<>>, positions |-> <<>>],
                          1, Len(anomaly_indices), max_samples),
              LAMBDA done :
                  With(_positions_to_ranges(done.positions),
                       LAMBDA rr : [samples |-> done.samples,
                                    row_ranges |-> rr,
                                    total_count |-> Len(done.samples),
                                    max_consecutive_run |-> MaxRangeCount(rr)]))

_build_anomaly_summary(original_series, anomaly_indices, values_series, max_samples) ==
    IF anomaly_indices = <<>>
    THEN [samples |-> <<>>, row_ranges |-> <<>>, total_count |-> 0, max_consecutive_run |-> 0]
    ELSE With(AnomalyLoop(original_series, values_series, anomaly_indices,
                          [lookup |-> _build_position_lookup(original_series.index),
                           samples |-> <<>>, positions |-> <<>>],
                          1, Len(anomaly_indices), max_samples),
              LAMBDA done :
                  With(_positions_to_ranges(done.positions),
                       LAMBDA rr : [samples |-> done.samples,
                                    row_ranges |-> rr,
                                    total_count |-> Len(anomaly_indices),
                                    max_consecutive_run |-> MaxRangeCount(rr)]))

\* ------------------------------------------------------ _longest_true_run
\* variant: a run as long as the longest so far replaces it
true_run_step_keeping_latest(flags, st, position) ==
    IF flags[position + 1]
    THEN LET start == IF st.current_start = -1 THEN position ELSE st.current_start
             current_length == position - start + 1
         IN  IF current_length >= st.max_length
             THEN [current_start |-> start, max_length |-> current_length, best_start |-> start]
             ELSE [current_start |-> start, max_length |-> st.max_length,
                   best_start |-> st.best_start]
    ELSE [current_start |-> -1, max_length |-> st.max_length, best_start |-> st.best_start]
\* one pass of the for loop of _longest_true_run, at the 0-based position;
\* current_start = -1 stands for None, best_start for the start of best_range
TrueRunStep(flags, st, position) ==
    IF flags[position + 1]
    THEN LET start == IF st.current_start = -1 THEN position ELSE st.current_start
             current_length == position - start + 1
         IN  IF current_length > st.max_length
             THEN [current_start |-> start, max_length |-> current_length, best_start |-> start]
             ELSE [current_start |-> start, max_length |-> st.max_length,
                   best_start |-> st.best_start]
    ELSE [current_start |-> -1, max_length |-> st.max_length, best_start |-> st.best_start]

RECURSIVE TrueRunLoop(_, _, _, _)
\* the passes lo..hi of that loop in order: the first half, then the second
TrueRunLoop(flags, st, lo, hi) ==
    IF lo > hi THEN st
    ELSE IF lo = hi THEN TrueRunStep(flags, st, lo)
    ELSE With(TrueRunLoop(flags, st, lo, (lo + hi) \div 2),
              LAMBDA first : TrueRunLoop(flags, first, (lo + hi) \div 2 + 1, hi))

\* (max_length, best_range): best_range lists the positions of the earliest
\* longest run
_longest_true_run(flags) ==
    With(TrueRunLoop(flags, [current_start |-> -1, max_length |-> 0, best_start |-> 0],
                     0, Len(flags) - 1),
         LAMBDA r : [max_length |-> r.max_length,
                     best_range |-> [i \in 1..r.max_length |-> r.best_start + i - 1]])

\* ------------------------------------------------------- check results
NoLocations == <<>>
Message(text, args) == [text |-> text, args |-> args]

\* variant: the severity argument is kept on a passing check
build_check_keeping_severity(name, passed, severity, message, metrics, samples, locations) ==
    [name |-> name,
     passed |-> passed,
     severity |-> severity,
     message |-> message,
     metrics |-> metrics,
     samples |-> samples,
     locations |-> locations]

\* severity is forced to "info" on a passing check
_build_check(name, passed, severity, message, metrics, samples, locations) ==
    [name |-> name,
     passed |-> passed,
     severity |-> IF passed THEN "info" ELSE severity,
     message |-> message,
     metrics |-> metrics,
     samples |-> samples,
     locations |-> locations]

\* variant: the skipped check is reported as a failed warning
build_skipped_check_as_failure(name, reason) ==
    _build_check(name, FALSE, "warning", Message("Check skipped: {reason}", <<>>),
                 [reason |-> reason], <<>>, NoLocations)

_build_skipped_check(name, reason) ==
    _build_check(name, TRUE, "info", Message("Check skipped: {reason}", <<>>),
                 [reason |-> reason], <<>>, NoLocations)

\* samples and locations of a check from an anomaly summary (None when absent)
SummarySamples(summary) == IF summary = None THEN <<>> ELSE summary.samples
SummaryLocations(summary) ==
    IF summary = None THEN NoLocations
    ELSE [row_ranges |-> summary.row_ranges,
          total_count |-> summary.total_count,
          max_consecutive_run |-> summary.max_consecutive_run]

CountChecks(checks, P(_)) == Cardinality({i \in DOMAIN checks : P(checks[i])})

\* variant: failed_checks counts the checks that are not 'info' warnings only
summarise_checks_failed_as_warning(checks) ==
    LET warning == CountChecks(checks, LAMBDA c : ~c.passed /\ c.severity = "warning")
        critical == CountChecks(checks, LAMBDA c : ~c.passed /\ c.severity = "critical")
    IN  [total_checks |-> Len(checks),
         passed_checks |-> Len(checks) - warning,
         failed_checks |-> warning,
         warning_checks |-> warning,
         critical_checks |-> critical]

_summarise_checks(checks) ==
    LET failed == CountChecks(checks, LAMBDA c : ~c.passed)
        warning == CountChecks(checks, LAMBDA c : ~c.passed /\ c.severity = "warning")
        critical == CountChecks(checks, LAMBDA c : ~c.passed /\ c.severity = "critical")
    IN  [total_checks |-> Len(checks),
         passed_checks |-> Len(checks) - failed,
         failed_checks |-> failed,
         warning_checks |-> warning,
         critical_checks |-> critical]

\* ------------------------------------------------ non-numeric check battery
null_count_of(s) == Len(Where(s, isna))

RECURSIVE DistinctSeq(_)
\* the distinct cells of vals in order of first appearance
DistinctSeq(vals) ==
    IF vals = <<>> THEN <<>>
    ELSE <<vals[1]>> \o DistinctSeq(SelectSeq(Tail(vals), LAMBDA x : x # vals[1]))

CountOf(vals, x) == Cardinality({i \in DOMAIN vals : vals[i] = x})

\* series.value_counts(dropna=True): [value, count] by descending count, ties
\* in order of first appearance
RECURSIVE ByCountDesc(_)
ByCountDesc(pairs) ==
    IF pairs = <<>> THEN <<>>
    ELSE LET top == MaxOf({pairs[i].count : i \in DOMAIN pairs})
             k == MinOf({i \in DOMAIN pairs : pairs[i].count = top})
         IN  <<pairs[k]>> \o ByCountDesc(SubSeq(pairs, 1, k - 1) \o SubSeq(pairs, k + 1, Len(pairs)))

value_counts(vals) ==
    LET d == DistinctSeq(vals)
    IN  ByCountDesc([i \in 1..Len(d) |-> [value |-> d[i], count |-> CountOf(vals, d[i])]])

\* variant: the warning threshold itself already fails
null_ratio_passed_strict(null_ratio) == RatLt(null_ratio, NULL_RATIO_WARNING_THRESHOLD)
\* passed = null_ratio <= NULL_RATIO_WARNING_THRESHOLD
null_ratio_passed(null_ratio) == RatLeq(null_ratio, NULL_RATIO_WARNING_THRESHOLD)

\* null_ratio check of a column with at least one row
NullRatioCheck(series) ==
    LET total_count == shape(series)
        null_count == null_count_of(series)
        null_ratio == Ratio(null_count, total_count)
        threshold == NULL_RATIO_WARNING_THRESHOLD
        passed == null_ratio_passed(null_ratio)
        severity == IF RatGeq(null_ratio, NULL_RATIO_CRITICAL_THRESHOLD)
                    THEN "critical" ELSE "warning"
        null_rows == Where(series, isna)
    IN  With(IF ~passed
             THEN _build_anomaly_summary(series,
                      [i \in 1..Len(null_rows) |-> series.index[null_rows[i]]],
                      NoSeries, MAX_ANOMALY_SAMPLES)
             ELSE None,
             LAMBDA summary :
        _build_check("null_ratio", passed, severity,
            Message(IF passed THEN "Null ratio {null_ratio} is within threshold {threshold}."
                    ELSE "Null ratio {null_ratio} exceeds threshold {threshold}.",
                    <<null_count, total_count>>),
            [null_ratio |-> null_ratio,
             null_count |-> null_count,
             threshold |-> threshold,
             critical_threshold |-> NULL_RATIO_CRITICAL_THRESHOLD],
            SummarySamples(summary), SummaryLocations(summary)))

\* int(total_count * 0.1) and int(total_count * 0.3): the double products
\* truncate to these quotients for every total_count up to 2000
TenthOf(total_count) == total_count \div 10
ThreeTenthsOf(total_count) == (3 * total_count) \div 10

Max2(a, b) == IF a >= b THEN a ELSE b

\* variant: the run threshold is rounded up instead of truncated
run_threshold_rounded_up(total_count) == Max2(5, (total_count + 9) \div 10)
\* max(5, int(total_count * 0.1))
run_threshold(total_count) == Max2(5, TenthOf(total_count))

\* max(10, int(total_count * 0.3))
critical_run_threshold(total_count) == Max2(10, ThreeTenthsOf(total_count))

\* null_run_length check of a column with at least one row
NullRunCheck(series) ==
    With(_longest_true_run([i \in 1..shape(series) |-> isna(series.values[i])]),
         LAMBDA run :
    LET total_count == shape(series)
        longest_null_run == run.max_length
        in_bounds == SelectSeq(run.best_range, LAMBDA pos : 0 <= pos /\ pos < total_count)
        run_indices == [i \in 1..Len(in_bounds) |-> series.index[in_bounds[i] + 1]]
        passed_run == longest_null_run < run_threshold(total_count)
        severity == IF longest_null_run >= critical_run_threshold(total_count)
                    THEN "critical" ELSE "warning"
        run_metrics == [longest_run |-> longest_null_run,
                        threshold |-> run_threshold(total_count),
                        critical_threshold |-> critical_run_threshold(total_count)]
    IN  With(_build_anomaly_summary(series, run_indices, NoSeries, MAX_ANOMALY_SAMPLES),
             LAMBDA run_summary :
        IF longest_null_run = 0
        THEN _build_check("null_run_length", TRUE, "info",
                          Message("No null streaks detected.", <<>>),
                          run_metrics, <<>>, NoLocations)
        ELSE _build_check("null_run_length", passed_run, severity,
                 Message(IF passed_run
                         THEN "Longest null streak spans {longest_null_run} rows and stays below threshold."
                         ELSE "Longest null streak spans {longest_null_run} rows exceeding threshold {run_threshold}.",
                         <<longest_null_run, run_threshold(total_count)>>),
                 run_metrics, run_summary.samples, SummaryLocations(run_summary))))

\* variant: every failure with more than one non-null value is critical
distinct_ratio_severity_escalating(passed, distinct_ratio, non_null_count) ==
    IF ~passed /\ non_null_count > 1 THEN "critical" ELSE "warning"
\* "critical" if not passed and distinct_ratio == 0.0 and non_null_count > 1
distinct_ratio_severity(passed, distinct_ratio, non_null_count) ==
    IF ~passed /\ distinct_ratio.num = 0 /\ non_null_count > 1 THEN "critical" ELSE "warning"

\* distinct_ratio check of a column with at least one non-null cell
DistinctRatioCheck(series) ==
    LET non_null_series == dropna(series)
        non_null_count == shape(non_null_series)
        distinct_count == Cardinality(SeqRange(non_null_series.values))
        distinct_ratio == Ratio(distinct_count, non_null_count)
        duplicated == Where(non_null_series,
                            LAMBDA x : CountOf(non_null_series.values, x) > 1)
        duplicate_count == Len(duplicated)
        unique_coverage == distinct_count = non_null_count
        passed == RatGeq(distinct_ratio, DISTINCT_RATIO_MIN_THRESHOLD) \/ unique_coverage
        severity == distinct_ratio_severity(passed, distinct_ratio, non_null_count)
    IN  With(IF ~passed /\ duplicate_count # 0
             THEN _build_anomaly_summary(series,
                      [i \in 1..Len(duplicated) |-> non_null_series.index[duplicated[i]]],
                      NoSeries, MAX_ANOMALY_SAMPLES)
             ELSE None,
             LAMBDA summary :
        _build_check("distinct_ratio", passed, severity,
            Message(IF passed THEN "Distinct ratio {distinct_ratio} is healthy."
                    ELSE "Distinct ratio {distinct_ratio} falls below {threshold}.",
                    <<distinct_count, non_null_count>>),
            [distinct_ratio |-> distinct_ratio,
             distinct_count |-> distinct_count,
             threshold |-> DISTINCT_RATIO_MIN_THRESHOLD,
             duplicate_count |-> duplicate_count],
            SummarySamples(summary), SummaryLocations(summary)))

\* (top_value, top_ratio) of a non-empty series without nulls
_dominant_value(s) ==
    With(value_counts(s.values),
         LAMBDA counts : [top_value |-> counts[1].value,
                          top_ratio |-> Ratio(counts[1].count, shape(s))])

DOMINANT_CRITICAL_RATIO == [num |-> 99, den |-> 100]

\* dominant_category check of a column with at least one non-null cell
DominantCategoryCheck(series) ==
    With(_dominant_value(dropna(series)), LAMBDA top :
    LET non_null_series == dropna(series)
        top_ratio == top.top_ratio
        passed == RatLeq(top_ratio, DOMINANT_CATEGORY_THRESHOLD)
        severity == IF ~passed /\ RatGeq(top_ratio, DOMINANT_CRITICAL_RATIO)
                    THEN "critical" ELSE "warning"
        top_rows == Where(non_null_series, LAMBDA x : x = top.top_value)
    IN  With(IF ~passed
             THEN _build_anomaly_summary(series,
                      [i \in 1..Len(top_rows) |-> non_null_series.index[top_rows[i]]],
                      NoSeries, MAX_ANOMALY_SAMPLES)
             ELSE None,
             LAMBDA summary :
        _build_check("dominant_category", passed, severity,
            Message(IF passed THEN "Most frequent value ratio {top_ratio} is acceptable."
                    ELSE "Most frequent value ratio {top_ratio} exceeds {threshold}.",
                    <<top_ratio.num, top_ratio.den>>),
            [most_frequent_ratio |-> top_ratio,
             most_frequent_value |-> top.top_value,
             threshold |-> DOMINANT_CATEGORY_THRESHOLD],
            SummarySamples(summary), SummaryLocations(summary))))

\* round(log2(m) * 100000) for m = 1..96
LOG2_TABLE ==
    <<0, 100000, 158496, 200000, 232193, 258496, 280735, 300000,
      316993, 332193, 345943, 358496, 370044, 380735, 390689, 400000,
      408746, 416993, 424793, 432193, 439232, 445943, 452356, 458496,
      464386, 470044, 475489, 480735, 485798, 490689, 495420, 500000,
      504439, 508746, 512928, 516993, 520945, 524793, 528540, 532193,
      535755, 539232, 542626, 545943, 549185, 552356, 555459, 558496,
      561471, 564386, 567243, 570044, 572792, 575489, 578136, 580735,
      583289, 585798, 588264, 590689, 593074, 595420, 597728, 600000,
      602237, 604439, 606609, 608746, 610852, 612928, 614975, 616993,
      618982, 620945, 622882, 624793, 626679, 628540, 630378, 632193,
      633985, 635755, 637504, 639232, 640939, 642626, 644294, 645943,
      647573, 649185, 650779, 652356, 653916, 655459, 656986, 658496>>
Log2(m) == LOG2_TABLE[m]

\* -(p * log2 p).sum() over the value counts, as the rational
\* sum(c * (log2 N - log2 c)) / (N * 100000); None when the counts are empty
_entropy_from_counts(counts) ==
    LET total == SumSeq(counts)
    IN  IF total = 0 THEN None
        ELSE Ratio(SumSeq([i \in 1..Len(counts) |-> counts[i] * (Log2(total) - Log2(counts[i]))]),
                   total * 100000)

ENTROPY_WARNING_RATIO == [num |-> 3, den |-> 10]
ENTROPY_CRITICAL_RATIO == [num |-> 1, den |-> 10]

\* the entropy metric of a column with at least one non-null cell
EntropyOf(series) ==
    With(value_counts(dropna(series).values),
         LAMBDA counts : _entropy_from_counts([i \in 1..Len(counts) |-> counts[i].count]))

\* entropy / log2(distinct_count), for distinct_count > 1
EntropyRatioOf(series) ==
    With(EntropyOf(series),
         LAMBDA entropy :
             Ratio(entropy.num,
                   (entropy.den \div 100000)
                   * Log2(Cardinality(SeqRange(dropna(series).values)))))

\* entropy check of a column with at least one non-null cell
EntropyCheck(series) ==
    With(EntropyOf(series), LAMBDA entropy :
    LET distinct_count == Cardinality(SeqRange(dropna(series).values))
    IN  IF entropy = None \/ distinct_count <= 1
        THEN _build_skipped_check("entropy", "insufficient distinct values to assess entropy")
        ELSE With(EntropyRatioOf(series), LAMBDA entropy_ratio :
             LET passed == RatGeq(entropy_ratio, ENTROPY_WARNING_RATIO)
                 severity == IF ~passed /\ RatLt(entropy_ratio, ENTROPY_CRITICAL_RATIO)
                             THEN "critical" ELSE "warning"
             IN  _build_check("entropy", passed, severity,
                 Message(IF passed THEN "Entropy ratio {entropy_ratio} is acceptable."
                         ELSE "Entropy ratio {entropy_ratio} suggests low variability.",
                         <<entropy_ratio.num, entropy_ratio.den>>),
                 [entropy |-> entropy,
                  entropy_ratio |-> entropy_ratio,
                  distinct_count |-> distinct_count,
                  warning_ratio |-> ENTROPY_WARNING_RATIO,
                  critical_ratio |-> ENTROPY_CRITICAL_RATIO],
                 <<>>, NoLocations)))

\* ---------------------------------------------------- numeric check battery
\* variant: only the cells that are numbers already; strings are not read
numeric_series_without_coercion(series) ==
    LET rows == Where(series, LAMBDA x : x.kind = "num")
    IN  Series([i \in 1..Len(rows) |-> series.index[rows[i]]],
               [i \in 1..Len(rows) |-> series.values[rows[i]].v])

\* series.dropna().apply(pd.to_numeric, errors="coerce").dropna(): the cells
\* that coerce to a number, with their index keys; values are integers
_numeric_series(series) ==
    LET rows == Where(series, LAMBDA x : ~isna(x) /\ to_numeric(x) # NaN)
    IN  Series([i \in 1..Len(rows) |-> series.index[rows[i]]],
               [i \in 1..Len(rows) |-> to_numeric(series.values[rows[i]]).v])

\* n^2 times the population variance: n * sum(x^2) - sum(x)^2
VarianceTimesN2(xs) ==
    Len(xs) * SumSeq([i \in DOMAIN xs |-> xs[i] * xs[i]]) - SumSeq(xs) * SumSeq(xs)

\* numeric_series.std(ddof=0) = sqrt(VarianceTimesN2) / n when size >= 2, else 0.0
StdIsZero(xs) == Len(xs) < 2 \/ VarianceTimesN2(xs) = 0

\* std <= LOW_VARIANCE_THRESHOLD (1e-9): the std of n integers is 0 or at
\* least 1/n, which is above the threshold for every n below 10^9
StdWithinLowVarianceThreshold(xs) == StdIsZero(xs)

\* 4 * numeric_series.quantile(k / 4), linear interpolation between order statistics
QuantileTimes4(xs, k) ==
    With(SortInts(xs), LAMBDA sorted :
    LET h == (Len(xs) - 1) * k
        lo == h \div 4
        r == h % 4
    IN  IF r = 0 THEN 4 * sorted[lo + 1]
        ELSE 4 * sorted[lo + 1] + r * (sorted[lo + 2] - sorted[lo + 1]))

\* 2 * median
MedianTimes2(xs) ==
    With(SortInts(xs), LAMBDA sorted :
    LET lo == (Len(xs) - 1) \div 2
    IN  IF (Len(xs) - 1) % 2 = 0 THEN 2 * sorted[lo + 1]
        ELSE sorted[lo + 1] + sorted[lo + 2])

\* 4 * iqr, iqr = q3 - q1
IqrTimes4(xs) == QuantileTimes4(xs, 3) - QuantileTimes4(xs, 1)

\* 4 * mad, mad = median(|x - median|)
MadTimes4(xs) ==
    With(MedianTimes2(xs),
         LAMBDA median2 : MedianTimes2([i \in DOMAIN xs |-> Abs(2 * xs[i] - median2)]))

\* the numeric metrics of a non-empty numeric series
NumericMetrics(xs) ==
    With(SortInts(xs), LAMBDA sorted :
    LET n == Len(xs)
    IN  [sum |-> Ratio(SumSeq(xs), 1),
         mean |-> Ratio(SumSeq(xs), n),
         min |-> Ratio(sorted[1], 1),
         max |-> Ratio(sorted[n], 1),
         median |-> Ratio(MedianTimes2(xs), 2),
         variance |-> IF n >= 2 THEN Ratio(VarianceTimesN2(xs), n * n) ELSE Ratio(0, 1),
         q1 |-> Ratio(QuantileTimes4(xs, 1), 4),
         q3 |-> Ratio(QuantileTimes4(xs, 3), 4),
         iqr |-> Ratio(IqrTimes4(xs), 4),
         mad |-> Ratio(MadTimes4(xs), 4)])

LowVarianceCheck(xs) ==
    With(IF Len(xs) >= 2 THEN Ratio(VarianceTimesN2(xs), Len(xs) * Len(xs)) ELSE Ratio(0, 1),
         LAMBDA variance :
    IF StdWithinLowVarianceThreshold(xs)
    THEN _build_check("low_variance", FALSE, "warning",
                      Message("Column exhibits near-zero variance.", <<>>),
                      [std_dev_squared |-> variance], <<>>, NoLocations)
    ELSE _build_check("low_variance", TRUE, "warning",
                      Message("Column variance is within expected range.", <<>>),
                      [std_dev_squared |-> variance], <<>>, NoLocations))

\* the outlier check shared by the three detectors: the rows of numeric_series
\* selected by the mask, their ratio against the two thresholds, and the row
\* evidence whenever at least one row is flagged
OutlierCheck(name, label, series, numeric_series, Flagged(_)) ==
    LET xs == numeric_series.values
        rows == SelectSeq([i \in 1..Len(xs) |-> i], LAMBDA i : Flagged(xs[i]))
        outlier_count == Len(rows)
        outlier_ratio == Ratio(outlier_count, Len(xs))
        passed == RatLeq(outlier_ratio, OUTLIER_RATIO_WARNING_THRESHOLD)
        severity == IF RatGeq(outlier_ratio, OUTLIER_RATIO_CRITICAL_THRESHOLD)
                    THEN "critical" ELSE "warning"
    IN  With(IF outlier_count # 0
             THEN _build_anomaly_summary(series,
                      [i \in 1..Len(rows) |-> numeric_series.index[rows[i]]],
                      [index |-> numeric_series.index,
                       values |-> [i \in DOMAIN xs |-> Num(xs[i])]],
                      MAX_ANOMALY_SAMPLES)
             ELSE None,
             LAMBDA summary :
        _build_check(name, passed, severity,
            Message(IF passed THEN "{label} outlier ratio {outlier_ratio} is acceptable."
                    ELSE "{label} outlier ratio {outlier_ratio} exceeds {threshold}.",
                    <<outlier_count, Len(xs)>>),
            [outlier_count |-> outlier_count,
             outlier_ratio |-> outlier_ratio,
             threshold |-> OUTLIER_RATIO_WARNING_THRESHOLD,
             critical_threshold |-> OUTLIER_RATIO_CRITICAL_THRESHOLD],
            SummarySamples(summary), SummaryLocations(summary)))

\* variant: a value is flagged from two standard deviations on
z_score_flagged_beyond_two(n, sum, variance_n2, x) ==
    (n * x - sum) * (n * x - sum) > 4 * variance_n2
\* |x - mean| / std > 3, squared and scaled by n^2: (n x - sum)^2 > 9 n^2 var
ZScoreFlagged(n, sum, variance_n2, x) ==
    (n * x - sum) * (n * x - sum) > 9 * variance_n2

ZScoreCheck(series, numeric_series) ==
    IF StdIsZero(numeric_series.values)
    THEN _build_skipped_check("z_score_outliers",
             "standard deviation is zero; z-score detection unavailable")
    ELSE With([n |-> Len(numeric_series.values),
               sum |-> SumSeq(numeric_series.values),
               variance_n2 |-> VarianceTimesN2(numeric_series.values)],
              LAMBDA m :
                  OutlierCheck("z_score_outliers", "Z-score", series, numeric_series,
                               LAMBDA x : ZScoreFlagged(m.n, m.sum, m.variance_n2, x)))

\* 8 * (q1 - 1.5 * iqr) and 8 * (q3 + 1.5 * iqr)
LowerFenceTimes8(xs) == 2 * QuantileTimes4(xs, 1) - 3 * IqrTimes4(xs)
UpperFenceTimes8(xs) == 2 * QuantileTimes4(xs, 3) + 3 * IqrTimes4(xs)

\* variant: a value on a fence is flagged too
iqr_flagged_inclusive(lower_fence8, upper_fence8, x) ==
    8 * x <= lower_fence8 \/ 8 * x >= upper_fence8

\* x < lower_fence or x > upper_fence
IqrFlagged(lower_fence8, upper_fence8, x) == 8 * x < lower_fence8 \/ 8 * x > upper_fence8

IqrCheck(series, numeric_series) ==
    IF IqrTimes4(numeric_series.values) = 0
    THEN _build_skipped_check("iqr_outliers",
             "interquartile range is zero; cannot compute fences")
    ELSE With([lower_fence8 |-> LowerFenceTimes8(numeric_series.values),
               upper_fence8 |-> UpperFenceTimes8(numeric_series.values)],
              LAMBDA f :
         With(OutlierCheck("iqr_outliers", "IQR", series, numeric_series,
                           LAMBDA x : IqrFlagged(f.lower_fence8, f.upper_fence8, x)),
              LAMBDA c :
                  [c EXCEPT !.metrics = [outlier_count |-> c.metrics.outlier_count,
                                         outlier_ratio |-> c.metrics.outlier_ratio,
                                         threshold |-> c.metrics.threshold,
                                         lower_fence |-> Ratio(f.lower_fence8, 8),
                                         upper_fence |-> Ratio(f.upper_fence8, 8),
                                         critical_threshold |-> c.metrics.critical_threshold]]))

\* |0.6745 * (x - median) / mad| > 3.5, i.e. 1349 * |2x - 2 median| > 3500 * 4 mad
ModifiedZFlagged(median2, mad4, x) ==
    1349 * Abs(2 * x - median2) > 3500 * mad4

ModifiedZCheck(series, numeric_series) ==
    IF MadTimes4(numeric_series.values) = 0
    THEN _build_skipped_check("modified_z_score",
             "median absolute deviation is zero; cannot compute modified z-scores")
    ELSE With([median2 |-> MedianTimes2(numeric_series.values),
               mad4 |-> MadTimes4(numeric_series.values)],
              LAMBDA m :
                  OutlierCheck("modified_z_score", "Modified z-score", series, numeric_series,
                               LAMBDA x : ModifiedZFlagged(m.median2, m.mad4, x)))

\* deviations from the mean scaled by n: n * x - sum(x)
ScaledDeviations(xs) ==
    With(SumSeq(xs), LAMBDA sum : [i \in DOMAIN xs |-> Len(xs) * xs[i] - sum])

\* sum of |d|^p over the deviations of the given sign (+1, -1, or 0 for all)
PowerSum(ds, p, sign) ==
    LET pow(d) == IF p = 2 THEN BigOf(d * d)
                  ELSE IF p = 3 THEN BigMul(BigOf(d * d), BigOf(d))
                  ELSE BigMul(BigOf(d * d), BigOf(d * d))
    IN  BigSum([i \in DOMAIN ds |->
                   IF sign = 0 \/ (sign = 1 /\ ds[i] > 0) \/ (sign = -1 /\ ds[i] < 0)
                   THEN pow(Abs(ds[i])) ELSE <<>>])

\* pandas Series.skew() (bias-corrected, 0 when the second moment is 0) is
\*   n * sqrt(n - 1) / (n - 2) * M3 / M2^1.5
\* over the scaled deviations, M3 = Pos3 - Neg3.  |skew| against a bound t:
\*   n^2 (n-1) (Pos3^2 + Neg3^2)  vs  t^2 (n-2)^2 M2^3 + 2 n^2 (n-1) Pos3 Neg3
SkewTerms(xs, t) ==
    With(ScaledDeviations(xs), LAMBDA ds :
    With([M2 |-> PowerSum(ds, 2, 0),
          Pos3 |-> PowerSum(ds, 3, 1),
          Neg3 |-> PowerSum(ds, 3, -1),
          k |-> BigOf(Len(xs) * Len(xs) * (Len(xs) - 1))],
         LAMBDA m :
    [lhs |-> BigMul(m.k, BigAdd(BigMul(m.Pos3, m.Pos3), BigMul(m.Neg3, m.Neg3))),
     rhs |-> BigAdd(BigMul(BigOf(t * t * (Len(xs) - 2) * (Len(xs) - 2)),
                           BigMul(m.M2, BigMul(m.M2, m.M2))),
                    BigMul(BigOf(2), BigMul(m.k, BigMul(m.Pos3, m.Neg3))))]))
AbsSkewLeq(xs, t) == With(SkewTerms(xs, t), LAMBDA s : BigLeq(s.lhs, s.rhs))
AbsSkewGeq(xs, t) == With(SkewTerms(xs, t), LAMBDA s : BigLeq(s.rhs, s.lhs))

SkewnessCheck(xs) ==
    IF Len(xs) >= 3
    THEN With(AbsSkewLeq(xs, SKEWNESS_WARNING_THRESHOLD), LAMBDA passed_skew :
         With(IF ~passed_skew /\ AbsSkewGeq(xs, SKEWNESS_WARNING_THRESHOLD * 2)
              THEN "critical" ELSE "warning",
              LAMBDA severity :
             _build_check("skewness", passed_skew, severity,
                 Message(IF passed_skew THEN "Skewness {skewness} is within expected bounds."
                         ELSE "Skewness {skewness} exceeds +-{threshold}.", <<>>),
                 [threshold |-> SKEWNESS_WARNING_THRESHOLD,
                  critical_threshold |-> SKEWNESS_WARNING_THRESHOLD * 2],
                 <<>>, NoLocations)))
    ELSE _build_skipped_check("skewness", "at least three numeric values required")

\* pandas Series.kurtosis() is NaN below 4 values, 0 when the second moment is
\* 0, and otherwise (P - Q) / D with
\*   P = n (n+1) (n-1) M4,  Q = 3 (n-1)^2 M2^2,  D = (n-2) (n-3) M2^2
KurtTerms(xs) ==
    With(ScaledDeviations(xs), LAMBDA ds :
    With([n |-> Len(xs), M2 |-> PowerSum(ds, 2, 0), M4 |-> PowerSum(ds, 4, 0)],
         LAMBDA m :
    [P |-> BigMul(BigOf(m.n * (m.n + 1) * (m.n - 1)), m.M4),
     Q |-> BigMul(BigOf(3 * (m.n - 1) * (m.n - 1)), BigMul(m.M2, m.M2)),
     D |-> BigMul(BigOf((m.n - 2) * (m.n - 3)), BigMul(m.M2, m.M2))]))
AbsKurtLeq(xs, t) ==
    With(KurtTerms(xs), LAMBDA k :
    With(BigMul(BigOf(t), k.D), LAMBDA tD :
        BigLeq(k.P, BigAdd(k.Q, tD)) /\ BigLeq(k.Q, BigAdd(k.P, tD))))
AbsKurtGeq(xs, t) ==
    With(KurtTerms(xs), LAMBDA k :
    With(BigMul(BigOf(t), k.D), LAMBDA tD :
        BigLeq(BigAdd(k.Q, tD), k.P) \/ BigLeq(BigAdd(k.P, tD), k.Q)))

KurtosisCheck(xs) ==
    IF Len(xs) >= 4
    THEN With(AbsKurtLeq(xs, KURTOSIS_WARNING_THRESHOLD), LAMBDA passed_kurt :
         With(IF ~passed_kurt /\ AbsKurtGeq(xs, KURTOSIS_WARNING_THRESHOLD * 2)
              THEN "critical" ELSE "warning",
              LAMBDA severity :
             _build_check("kurtosis", passed_kurt, severity,
                 Message(IF passed_kurt THEN "Kurtosis {kurtosis} is within expected bounds."
                         ELSE "Kurtosis {kurtosis} exceeds +-{threshold}.", <<>>),
                 [threshold |-> KURTOSIS_WARNING_THRESHOLD,
                  critical_threshold |-> KURTOSIS_WARNING_THRESHOLD * 2],
                 <<>>, NoLocations)))
    ELSE IF Len(xs) = 3
    THEN _build_skipped_check("kurtosis", "kurtosis undefined for constant series")
    ELSE _build_skipped_check("kurtosis", "at least three numeric values required")

\* ---------------------------------------------------------- analyze_column
\* metrics and checks of the null section
NullSection(series) ==
    LET total_count == shape(series)
        null_count == null_count_of(series)
        base == [total_count |-> total_count,
                 null_count |-> null_count,
                 null_ratio |-> IF total_count # 0 THEN Ratio(null_count, total_count) ELSE None,
                 non_null_count |-> total_count - null_count]
    IN  IF total_count = 0
        THEN [metrics |-> base @@ [longest_null_run |-> 0],
              checks |-> <<_build_skipped_check("null_ratio", "column has zero rows"),
                           _build_skipped_check("null_run_length", "column has zero rows")>>]
        ELSE [metrics |-> base @@ [longest_null_run |->
                              _longest_true_run([i \in 1..total_count |->
                                                    isna(series.values[i])]).max_length],
              checks |-> <<NullRatioCheck(series), NullRunCheck(series)>>]

\* metrics and checks of the distinctness, dominance and entropy section
DistinctSection(series) ==
    LET non_null_series == dropna(series)
        non_null_count == shape(non_null_series)
        distinct_count == Cardinality(SeqRange(non_null_series.values))
    IN  IF non_null_count # 0
        THEN With(_dominant_value(non_null_series), LAMBDA top :
             [metrics |->
                 [distinct_count |-> distinct_count,
                  distinct_ratio |-> Ratio(distinct_count, non_null_count),
                  duplicate_count |-> Len(Where(non_null_series,
                                        LAMBDA x : CountOf(non_null_series.values, x) > 1)),
                  most_frequent_value |-> top.top_value,
                  most_frequent_ratio |-> top.top_ratio,
                  entropy |-> EntropyOf(series)]
                 @@ (IF distinct_count > 1
                     THEN [entropy_ratio |-> EntropyRatioOf(series)]
                     ELSE <<>>),
              checks |-> <<DistinctRatioCheck(series),
                           DominantCategoryCheck(series),
                           EntropyCheck(series)>>])
        ELSE [metrics |->
                 [distinct_count |-> 0,
                  distinct_ratio |-> None,
                  most_frequent_value |-> None,
                  most_frequent_ratio |-> None,
                  entropy |-> None,
                  duplicate_count |-> 0],
              checks |-> <<_build_skipped_check("distinct_ratio", "no non-null values"),
                           _build_skipped_check("dominant_category", "no non-null values"),
                           _build_skipped_check("entropy", "no non-null values")>>]

\* metrics and checks of the numeric section
NumericSection(series) ==
    LET numeric_series == _numeric_series(series)
        xs == numeric_series.values
    IN  IF xs = <<>>
        THEN [metrics |-> [inferred_type |-> "categorical"],
              checks |-> <<_build_skipped_check("numeric_profile",
                                                "column does not contain numeric data")>>]
        ELSE [metrics |-> [inferred_type |-> "numeric",
                           std_dev_is_zero |-> StdIsZero(xs),
                           skewness_defined |-> Len(xs) >= 3,
                           kurtosis_defined |-> Len(xs) >= 4]
                          @@ NumericMetrics(xs),
              checks |-> <<LowVarianceCheck(xs),
                           ZScoreCheck(series, numeric_series),
                           IqrCheck(series, numeric_series),
                           ModifiedZCheck(series, numeric_series),
                           SkewnessCheck(xs),
                           KurtosisCheck(xs)>>]

\* variant: the checks of the numeric section come before those of the
\* distinctness section
analyze_column_numeric_checks_first(table, column, series) ==
    With([nulls |-> NullSection(series),
          distinct |-> DistinctSection(series),
          numeric |-> NumericSection(series)],
         LAMBDA s :
    With(s.nulls.checks \o s.numeric.checks \o s.distinct.checks,
         LAMBDA checks :
    [table |-> table,
     column |-> column,
     metrics |-> s.nulls.metrics @@ s.distinct.metrics @@ s.numeric.metrics,
     checks |-> checks,
     issue_summary |-> _summarise_checks(checks)]))

analyze_column(table, column, series) ==
    With([nulls |-> NullSection(series),
          distinct |-> DistinctSection(series),
          numeric |-> NumericSection(series)],
         LAMBDA s :
    With(s.nulls.checks \o s.distinct.checks \o s.numeric.checks,
         LAMBDA checks :
    [table |-> table,
     column |-> column,
     metrics |-> s.nulls.metrics @@ s.distinct.metrics @@ s.numeric.metrics,
     checks |-> checks,
     issue_summary |-> _summarise_checks(checks)]))

\* ------------------------------------------------------- tables and names
\* A name (table, column) is a sequence of one-character tokens, so that
\* f-string concatenation is \o.  A DataFrame is its index keys, its column
\* names in order, and one sequence of cells per column.
DataFrame(index, columns, cells) == [index |-> index, columns |-> columns, cells |-> cells]
df_rows(df) == Len(df.index)
\* df[column] for the k-th column
df_column(df, k) == Series(df.index, df.cells[k])
\* dataset.get(table_name): the position of the table in the dataset, 0 for None
dataset_get(dataset, table_name) ==
    IF \E t \in DOMAIN dataset : dataset[t].name = table_name
    THEN MinOf({t \in DOMAIN dataset : dataset[t].name = table_name})
    ELSE 0

\* the None of AlertCandidate.column: a token no name contains
NoneName == <<"None">>

\* ---------------------------------------------------- _extract_row_context
\* the cell of the k-th column in a row yielded by df.iterrows(): the row is
\* a float Series of numpy scalars when every column is numeric, and an
\* object Series of native values otherwise
FloatFrame(df) ==
    \A k \in DOMAIN df.cells : \A i \in DOMAIN df.cells[k] :
        df.cells[k][i].kind \in {"num", "nan"}
iterrows_cell(df, k, row) ==
    IF FloatFrame(df) THEN df.cells[k][row] ELSE maybe_box_native(df.cells[k][row])

\* one row of a context block: the row (1-based) of the table with its
\* position, its index key, the flagged cell (row.get(column)) and the
\* snapshot of every column (row.to_dict())
ContextSample(df, column, row) ==
    [row_number |-> row - 1,
     row_index |-> df.index[row],
     value |-> IF \E k \in DOMAIN df.columns : df.columns[k] = column
               THEN _json_safe(iterrows_cell(df, MaxOf({k \in DOMAIN df.columns :
                                                          df.columns[k] = column}), row))
               ELSE JsonNull,
     row_snapshot |->
        [col \in SeqRange(df.columns) |->
            _json_safe(maybe_box_native(
                iterrows_cell(df, MaxOf({k \in DOMAIN df.columns : df.columns[k] = col}),
                              row)))]]

\* variant: max_rows rows are taken whatever the end of the range
context_block_ignoring_range_end(df, column, row_range, max_rows) ==
    LET total_rows == df_rows(df)
        start == IF row_range.start < 0 THEN 0 ELSE row_range.start
        limit == IF total_rows < start + max_rows THEN total_rows ELSE start + max_rows
    IN  [range |-> MkRange(row_range.start, row_range.end, row_range.count),
         row_samples |-> [offset \in 1..(limit - start) |->
                             ContextSample(df, column, start + offset)]]

\* one context block of a row range that starts inside the table
ContextBlock(df, column, row_range, max_rows) ==
    LET total_rows == df_rows(df)
        start == IF row_range.start < 0 THEN 0 ELSE row_range.start
        end == IF row_range.end < start THEN start ELSE row_range.end
        resolved_end == IF end < total_rows - 1 THEN end ELSE total_rows - 1
        limit == IF resolved_end + 1 < start + max_rows THEN resolved_end + 1
                 ELSE start + max_rows
    IN  [range |-> MkRange(row_range.start, row_range.end, row_range.count),
         row_samples |-> [offset \in 1..(limit - start) |->
                             ContextSample(df, column, start + offset)]]

RECURSIVE ContextLoop(_, _, _, _, _)
\* the for loop over row_ranges: one block per range that starts inside the table
ContextLoop(df, column, rr, i, max_rows) ==
    IF i > Len(rr) THEN <<>>
    ELSE LET start == IF rr[i].start < 0 THEN 0 ELSE rr[i].start
         IN  (IF start >= df_rows(df) THEN <<>>
              ELSE <<ContextBlock(df, column, rr[i], max_rows)>>)
             \o ContextLoop(df, column, rr, i + 1, max_rows)

\* variant: at most max_rows blocks are kept
extract_row_context_capped(df, column, locations, max_rows) ==
    IF DOMAIN locations = {} THEN <<>>
    ELSE IF locations.row_ranges = <<>> THEN <<>>
    ELSE LET all == ContextLoop(df, column, locations.row_ranges, 1, max_rows)
         IN  SubSeq(all, 1, IF Len(all) < max_rows THEN Len(all) ELSE max_rows)

_extract_row_context(df, column, locations, max_rows) ==
    IF DOMAIN locations = {} THEN <<>>
    ELSE IF locations.row_ranges = <<>> THEN <<>>
    ELSE ContextLoop(df, column, locations.row_ranges, 1, max_rows)

\* ------------------------------------------------------ compute_statistics
RECURSIVE TableColumns(_, _, _)
\* analyze_column over the columns of one table, in column order
TableColumns(table_name, df, k) ==
    IF k > Len(df.columns) THEN <<>>
    ELSE <<analyze_column(table_name, df.columns[k], df_column(df, k))>>
         \o TableColumns(table_name, df, k + 1)

\* a < b in the order of Python strings over the tokens in use: shorter
\* prefixes first, tokens by code point
TOKEN_ORDER == <<".", ":", "a", "b", "s", "t">>
TokenRank(c) == MinOf({i \in DOMAIN TOKEN_ORDER : TOKEN_ORDER[i] = c})
RECURSIVE NameLess(_, _)
NameLess(a, b) ==
    IF b = <<>> THEN FALSE
    ELSE IF a = <<>> THEN TRUE
    ELSE IF a[1] # b[1] THEN TokenRank(a[1]) < TokenRank(b[1])
    ELSE NameLess(Tail(a), Tail(b))

RECURSIVE names_in_descending_order(_)
\* variant: the names in descending order
names_in_descending_order(S) ==
    IF S = {} THEN <<>>
    ELSE LET m == CHOOSE x \in S : \A y \in S \ {x} : NameLess(y, x)
         IN  <<m>> \o names_in_descending_order(S \ {m})

RECURSIVE SortedNames(_)
\* sorted(set of names)
SortedNames(S) ==
    IF S = {} THEN <<>>
    ELSE LET m == CHOOSE x \in S : \A y \in S \ {x} : NameLess(x, y)
         IN  <<m>> \o SortedNames(S \ {m})

SumOver(columns, F(_)) == SumSeq([i \in DOMAIN columns |-> F(columns[i])])

\* variant: a ratio of 0 when there are no cells
null_cell_ratio_zero_when_empty(null_cells, cell_count) ==
    IF cell_count # 0 THEN Ratio(null_cells, cell_count) ELSE Ratio(0, 1)

\* (null_cells / cell_count) if cell_count else None
null_cell_ratio(null_cells, cell_count) ==
    IF cell_count # 0 THEN Ratio(null_cells, cell_count) ELSE None

\* the TableStatistics of one table from its ColumnStatistics
TableSummary(table_name, df, columns) ==
    LET row_count == df_rows(df)
        column_count == Len(df.columns)
        cell_count == row_count * column_count
        null_cells == SumOver(columns, LAMBDA col : col.metrics.null_count)
        failed_checks == SumOver(columns, LAMBDA col : col.issue_summary.failed_checks)
        warning_checks == SumOver(columns, LAMBDA col : col.issue_summary.warning_checks)
        critical_checks == SumOver(columns, LAMBDA col : col.issue_summary.critical_checks)
        issue_columns == {columns[i].column : i \in {j \in DOMAIN columns :
                              columns[j].issue_summary.failed_checks > 0}}
        critical_columns == {columns[i].column : i \in {j \in DOMAIN columns :
                                 columns[j].issue_summary.critical_checks > 0}}
        max_null_run == IF columns # <<>>
                        THEN MaxOf({columns[i].metrics.longest_null_run : i \in DOMAIN columns})
                        ELSE 0
    IN  [table |-> table_name,
         row_count |-> row_count,
         column_count |-> column_count,
         metrics |-> [cell_count |-> cell_count,
                      null_cell_count |-> null_cells,
                      null_cell_ratio |-> null_cell_ratio(null_cells, cell_count),
                      failed_check_ratio_per_column |->
                          IF column_count # 0 THEN Ratio(failed_checks, column_count) ELSE None,
                      max_null_run |-> max_null_run],
         issue_summary |-> [failed_checks |-> failed_checks,
                            warning_checks |-> warning_checks,
                            critical_checks |-> critical_checks,
                            failed_column_count |-> Cardinality(issue_columns),
                            critical_column_count |-> Cardinality(critical_columns),
                            columns_with_issues |-> SortedNames(issue_columns),
                            critical_columns |-> SortedNames(critical_columns)]]

\* variant: only the columns of the last table are kept
flatten_last_table(ss, i) == IF ss = <<>> THEN <<>> ELSE ss[Len(ss)]

RECURSIVE Flatten(_, _)
Flatten(ss, i) == IF i > Len(ss) THEN <<>> ELSE ss[i] \o Flatten(ss, i + 1)

RECURSIVE PerTable(_, _)
\* the first loop of compute_statistics: the ColumnStatistics of each table
PerTable(dataset, t) ==
    IF t > Len(dataset) THEN <<>>
    ELSE <<TableColumns(dataset[t].name, dataset[t].df, 1)>> \o PerTable(dataset, t + 1)

\* datetime.isoformat(): the text of an instant
isoformat(instant) == [iso |-> instant]
\* datetime.fromisoformat() raises ValueError on a text that is no instant
is_iso_text(text) == DOMAIN text = {"iso"}
fromisoformat(text) == text.iso

compute_statistics(dataset, now) ==
    With(PerTable(dataset, 1), LAMBDA per_table :
    With([t \in DOMAIN dataset |->
             TableSummary(dataset[t].name, dataset[t].df, per_table[t])],
         LAMBDA table_summaries :
    LET column_results == Flatten(per_table, 1)
        total_cells == SumOver(table_summaries, LAMBDA ts : ts.metrics.cell_count)
        total_null_cells == SumOver(table_summaries, LAMBDA ts : ts.metrics.null_cell_count)
        qualified(t, names) == {dataset[t].name \o <<".">> \o names[i] : i \in DOMAIN names}
        dataset_issue_columns ==
            UNION {qualified(t, table_summaries[t].issue_summary.columns_with_issues) :
                      t \in DOMAIN dataset}
        dataset_critical_columns ==
            UNION {qualified(t, table_summaries[t].issue_summary.critical_columns) :
                      t \in DOMAIN dataset}
    IN  [generated_at |-> isoformat(now),
         columns |-> column_results,
         tables |-> table_summaries \o <<>>,
         metrics |->
            [table_count |-> Len(dataset),
             column_count |-> Len(column_results),
             row_count |-> SumOver(table_summaries, LAMBDA ts : ts.row_count),
             cell_count |-> total_cells,
             null_cell_count |-> total_null_cells,
             null_cell_ratio |-> null_cell_ratio(total_null_cells, total_cells),
             failed_checks |-> SumOver(table_summaries, LAMBDA ts : ts.issue_summary.failed_checks),
             warning_checks |-> SumOver(table_summaries, LAMBDA ts : ts.issue_summary.warning_checks),
             critical_checks |-> SumOver(table_summaries, LAMBDA ts : ts.issue_summary.critical_checks),
             failed_column_count |-> Cardinality(dataset_issue_columns),
             critical_column_count |-> Cardinality(dataset_critical_columns),
             columns_with_issues |-> SortedNames(dataset_issue_columns),
             critical_columns |-> SortedNames(dataset_critical_columns),
             max_null_run |-> IF dataset = <<>> THEN 0
                              ELSE MaxOf({0} \cup {table_summaries[t].metrics.max_null_run :
                                                      t \in DOMAIN dataset})]]))

\* -------------------------------------------------- build_alert_candidates
\* variant: the name of a column alert leaves the check out
column_alert_name_without_check(table_name, column_name, check_name) ==
    table_name \o <<".">> \o column_name
\* f"{table_name}.{column_name}::{check.name}", character by character; a
\* check name is one token
column_alert_name(table_name, column_name, check_name) ==
    table_name \o <<".">> \o column_name \o <<":", ":">> \o <<check_name>>

\* the AlertCandidate of one failing check of a column
ColumnAlert(dataset, column_stats, check, max_context_rows, triggered_at) ==
    LET table_name == column_stats.table
        column_name == column_stats.column
        t == dataset_get(dataset, table_name)
        row_context ==
            IF t # 0 /\ column_name \in SeqRange(dataset[t].df.columns)
               /\ DOMAIN check.locations # {}
            THEN _extract_row_context(dataset[t].df, column_name, check.locations,
                                      max_context_rows)
            ELSE <<>>
    IN  [table |-> table_name,
         column |-> column_name,
         check_name |-> check.name,
         name |-> column_alert_name(table_name, column_name, check.name),
         severity |-> IF check.severity = "" THEN "warning" ELSE check.severity,
         message |-> check.message,
         triggered_at |-> triggered_at,
         details |-> [table |-> table_name,
                      column |-> column_name,
                      check_name |-> check.name,
                      message |-> check.message,
                      metrics |-> check.metrics,
                      samples |-> check.samples,
                      locations |-> check.locations,
                      row_context |-> row_context,
                      column_metrics |-> column_stats.metrics,
                      issue_summary |-> column_stats.issue_summary]]

RECURSIVE ColumnAlerts(_, _, _, _, _, _)
\* the first loop: columns in order, the failing checks of each in order
ColumnAlerts(dataset, columns, c, k, max_context_rows, triggered_at) ==
    IF c > Len(columns) THEN <<>>
    ELSE IF k > Len(columns[c].checks)
    THEN ColumnAlerts(dataset, columns, c + 1, 1, max_context_rows, triggered_at)
    ELSE (IF columns[c].checks[k].passed THEN <<>>
          ELSE <<ColumnAlert(dataset, columns[c], columns[c].checks[k], max_context_rows,
                             triggered_at)>>)
         \o ColumnAlerts(dataset, columns, c, k + 1, max_context_rows, triggered_at)

\* variant: the severity is decided by the warning count
table_alert_severity_from_warnings(issue_summary) ==
    IF issue_summary.warning_checks > 0 THEN "warning" ELSE "critical"
\* severity = "critical" if critical_checks > 0 else "warning"
table_alert_severity(issue_summary) ==
    IF issue_summary.critical_checks > 0 THEN "critical" ELSE "warning"

\* the table-level AlertCandidate of a table with failed checks
TableAlert(table_stats, triggered_at) ==
    LET critical_checks == table_stats.issue_summary.critical_checks
        warning_checks == table_stats.issue_summary.warning_checks
    IN  [table |-> table_stats.table,
         column |-> NoneName,
         check_name |-> "table_summary",
         name |-> table_stats.table \o <<":", ":">> \o <<"summary_issues">>,
         severity |-> table_alert_severity(table_stats.issue_summary),
         message |-> IF critical_checks # 0
                     THEN Message("Table '{table}' has {critical} critical and {warning} warning column checks failing.",
                                  <<critical_checks, warning_checks>>)
                     ELSE Message("Table '{table}' has {warning} warning column checks failing.",
                                  <<warning_checks>>),
         triggered_at |-> triggered_at,
         details |-> [table |-> table_stats.table,
                      metrics |-> table_stats.metrics,
                      issue_summary |-> table_stats.issue_summary]]

RECURSIVE TableAlerts(_, _, _)
\* the second loop: one summary alert per table whose failed_checks is not 0
TableAlerts(tables, t, triggered_at) ==
    IF t > Len(tables) THEN <<>>
    ELSE (IF tables[t].issue_summary.failed_checks = 0 THEN <<>>
          ELSE <<TableAlert(tables[t], triggered_at)>>)
         \o TableAlerts(tables, t + 1, triggered_at)

\* triggered_at: the instant the statistics were generated at, or the present
\* instant when their generated_at does not parse
triggered_at_of(statistics, now) ==
    IF is_iso_text(statistics.generated_at) THEN fromisoformat(statistics.generated_at) ELSE now

\* variant: the candidates are stamped with the present instant
build_alert_candidates_stamped_now(dataset, statistics, max_context_rows, now) ==
    ColumnAlerts(dataset, statistics.columns, 1, 1, max_context_rows, now)
    \o TableAlerts(statistics.tables, 1, now)

\* variant: the table summaries are emitted before the column alerts
build_alert_candidates_tables_first(dataset, statistics, max_context_rows, now) ==
    TableAlerts(statistics.tables, 1, triggered_at_of(statistics, now))
    \o ColumnAlerts(dataset, statistics.columns, 1, 1, max_context_rows,
                    triggered_at_of(statistics, now))

build_alert_candidates(dataset, statistics, max_context_rows, now) ==
    ColumnAlerts(dataset, statistics.columns, 1, 1, max_context_rows,
                 triggered_at_of(statistics, now))
    \o TableAlerts(statistics.tables, 1, triggered_at_of(statistics, now))

\* ------------------------------------------------------------ statistics_job
\* the identity of an alert: (table, column, check_name)
alert_key(alert) == <<alert.table, alert.column, alert.check_name>>

\* persist_alerts: a new active row for every candidate key without an active
\* row, the active rows of the candidate keys left as they are, every other
\* active row marked resolved.  The store keeps one row per key and status.
persist_alerts(store, alerts) ==
    LET keys == {alert_key(alerts[i]) : i \in DOMAIN alerts}
        active_keys == {row.key : row \in {r \in store : r.status = "active"}}
    IN  {r \in store : r.status = "resolved" \/ r.key \in keys}
          \cup {[key |-> r.key, status |-> "resolved"] :
                   r \in {x \in store : x.status = "active" /\ x.key \notin keys}}
          \cup {[key |-> k, status |-> "active"] : k \in keys \ active_keys}

\* variant: the candidates are persisted whatever their number
extract_alerts_op_always_persisting(store, alerts) == persist_alerts(store, alerts)
\* extract_alerts_op after build_alert_candidates: nothing is persisted when
\* there is no candidate
extract_alerts_op(store, alerts) ==
    IF alerts = <<>> THEN store ELSE persist_alerts(store, alerts)

\* ------------------------------------------------------------ load_dataset_op
\* the classes an exception of a class is an instance of
ExceptionBases ==
    [DatasetNotFoundError |-> {"DatasetNotFoundError", "FileNotFoundError", "OSError", "Exception"},
     SourceConnectorError |-> {"SourceConnectorError", "RuntimeError", "Exception"},
     SourceConfigurationError |->
        {"SourceConfigurationError", "SourceConnectorError", "RuntimeError", "Exception"},
     UnknownConnectorError |->
        {"UnknownConnectorError", "SourceConnectorError", "RuntimeError", "Exception"},
     Failure |-> {"Failure", "Exception"}]
isinstance(error, class) == class \in ExceptionBases[error]

\* how a call ends: with a value, or with an exception of the class `raised`
Returned(dataset) == [raised |-> "", dataset |-> dataset]
Raised(error) == [raised |-> error, dataset |-> <<>>]

\* pd.read_csv of the file of a table: every file holds one row of one column
read_csv(table) == DataFrame(RangeIndex(1), <<<<"a">>>>, <<<<Num(1)>>>>)

\* a str is one table name, an iterable its elements, anything else an error
_normalize_table_names(tables) ==
    CASE tables.kind = "str" -> Returned(<<tables.names[1]>>)
      [] tables.kind = "list" -> Returned(tables.names)
      [] OTHER -> Raised("SourceConfigurationError")

RECURSIVE selected_tables(_, _, _)
\* the dict the loop of _load_selected_tables fills: the tables that have a
\* file, each once, in the order they are first asked for
selected_tables(files, tables, i) ==
    IF i > Len(tables) THEN <<>>
    ELSE (IF tables[i] \in files /\ \A j \in 1..(i - 1) : tables[j] # tables[i]
          THEN <<[name |-> tables[i], df |-> read_csv(tables[i])]>> ELSE <<>>)
         \o selected_tables(files, tables, i + 1)

_load_selected_tables(files, tables) ==
    LET missing == SelectSeq(tables, LAMBDA table : table \notin files)
    IN  IF missing # <<>> THEN Raised("DatasetNotFoundError")
        ELSE IF selected_tables(files, tables, 1) = <<>> THEN Raised("DatasetNotFoundError")
        ELSE Returned(selected_tables(files, tables, 1))

\* CSVConnector.load_dataset of the "tables" entry of the dataset
\* configuration, on the dataset directory
load_dataset(directory, tables) ==
    IF ~directory.exists THEN Raised("DatasetNotFoundError")
    ELSE IF tables.kind # "none"
    THEN LET table_names == _normalize_table_names(tables)
         IN  IF table_names.raised # "" THEN table_names
             ELSE _load_selected_tables(directory.files, table_names.dataset)
    ELSE LET found == SortedNames(directory.files)
         IN  IF found = <<>> THEN Raised("DatasetNotFoundError")
             ELSE Returned([i \in DOMAIN found |-> [name |-> found[i], df |-> read_csv(found[i])]])

\* load_dataset_op: the three connector errors become a Failure, any other
\* exception leaves the op as it is
load_dataset_op(directory, tables) ==
    LET loaded == load_dataset(directory, tables)
    IN  [connector |-> loaded,
         raised |-> IF loaded.raised = "" THEN ""
                    ELSE IF \/ isinstance(loaded.raised, "UnknownConnectorError")
                            \/ isinstance(loaded.raised, "SourceConfigurationError")
                            \/ isinstance(loaded.raised, "SourceConnectorError")
                    THEN "Failure"
                    ELSE loaded.raised]

\* ------------------------------------------------------------ input columns
Alphabet == {NULL, Num(1), Num(2), Num(9), Str(1)}
BlockCells == {NULL, Num(9), Str(1)}

\* every column of at most MaxLen rows over the alphabet
SmallColumns == SeqsUpTo(Alphabet, MaxLen)

\* a block of equal cells between two stretches of the filler value 1, the
\* second of an even length
BlockColumns ==
    {Repeat(Num(1), a) \o Repeat(v, l) \o Repeat(Num(1), 2 * b) :
        a \in 0..MaxLead, v \in BlockCells, l \in 1..MaxBlock, b \in 0..MaxTailPairs}

\* ten 1s, some 2s and one or two 9s: the quartiles differ and the 9s lie
\* outside every fence
SpreadColumns ==
    {Repeat(Num(1), 10) \o Repeat(Num(2), k) \o Repeat(Num(9), j) :
        k \in 8..MaxSpread, j \in 1..2}

\* quartiles 1 and 3, so fences at -2 and 6, and a last value below, on or
\* above the upper fence
FenceColumns == {<<Num(1), Num(1), Num(3), Num(3), Num(v)>> : v \in 5..7}

\* columns with a string that reads as a number among numbers, other strings
\* and nulls
CoercedColumns == SeqsUpTo({NULL, Num(1), Str(1), NumStr(2)}, MaxCoerced)

\* two runs of nulls of 4 rows or more, after at most one row and with one or
\* two rows between them
TwoRunColumns ==
    {Repeat(Num(1), a) \o Repeat(NULL, first) \o Repeat(Num(1), gap) \o Repeat(NULL, second) :
        a \in 0..1, first \in 4..MaxNullRun, gap \in 1..2, second \in 4..MaxNullRun}

ColumnInputs ==
    SmallColumns \cup BlockColumns \cup SpreadColumns \cup FenceColumns \cup CoercedColumns
      \cup TwoRunColumns

\* ------------------------------------------------------------ input datasets
FrameCells == {NULL, Num(1), Num(9)}
SecondCells == {NULL, Num(1)}
ColA == <<"a">>
ColB == <<"b">>
TableT == <<"t">>
TableS == <<"s">>

\* the tables of at most `cols` columns and `rows` rows with the default
\* index; the columns are named b, a in that order, the first over FrameCells
\* and the others over SecondCells
Frames(cols, rows) ==
    UNION {{DataFrame(RangeIndex(r), SubSeq(<<ColB, ColA>>, 1, c), <<first>> \o others) :
                first \in [1..r -> FrameCells],
                others \in [1..(c - 1) -> [1..r -> SecondCells]]} :
            r \in 0..rows, c \in 1..cols}
      \cup {DataFrame(<<>>, <<>>, <<>>)}

\* a table whose column b holds a null every `period` rows and whose column a
\* counts the rows
StripedFrame(rows, period) ==
    DataFrame(RangeIndex(rows), <<ColB, ColA>>,
              <<[i \in 1..rows |-> IF i % period = 1 THEN NULL ELSE Num(1)],
                [i \in 1..rows |-> Num(i)]>>)

Table(name, df) == [name |-> name, df |-> df]

\* the tables of one float column b whose missing values are NaN
FloatFrames(rows) ==
    UNION {{DataFrame(RangeIndex(r), <<ColB>>, <<cells>>) : cells \in [1..r -> {NaN, Num(1), Num(9)}]} :
            r \in 1..rows}

\* two tables of one column and one row each whose names hold a '.' or a '::'
PunctuatedTableNames == {<<"a">>, <<"a", ".", "b">>, <<"a", ":", ":", "b">>}
PunctuatedColumnNames == {<<"s">>, <<"b", ".", "s">>, <<"b", ":", ":", "s">>}
PunctuatedDatasets ==
    {<<Table(names[1], DataFrame(RangeIndex(1), <<names[2]>>, <<<<cells[1]>>>>)),
       Table(names[3], DataFrame(RangeIndex(1), <<names[4]>>, <<<<cells[2]>>>>))>> :
        names \in {n \in PunctuatedTableNames \X PunctuatedColumnNames
                           \X PunctuatedTableNames \X PunctuatedColumnNames : n[1] # n[3]},
        cells \in SecondCells \X SecondCells}

Datasets ==
    PunctuatedDatasets \cup
    {<<Table(TableT, f)>> : f \in Frames(2, MaxFrameRows) \cup FloatFrames(MaxFrameRows)}
      \cup {<<Table(TableT, f), Table(TableS, g)>> :
               f \in Frames(1, MaxPairRows), g \in Frames(1, MaxPairRows)}
      \cup {<<Table(TableT, StripedFrame(r, p))>> : r \in 1..MaxStripeRows, p \in 2..3}

\* a table of two columns whose cells all differ
NumberedFrame(rows) ==
    DataFrame(RangeIndex(rows), <<ColB, ColA>>,
              <<[i \in 1..rows |-> Num(100 + i)], [i \in 1..rows |-> Num(200 + i)]>>)

\* at most two ascending row ranges, possibly past the end of the table
RangeInputs ==
    LET One == {MkRange(s, s + l - 1, l) : s \in 0..(MaxCtxRows + 1), l \in 1..MaxRangeLen}
    IN  {<<>>} \cup {<<r>> : r \in One}
          \cup {<<pair[1], pair[2]>> :
                   pair \in {x \in One \X One : x[2].start > x[1]["end"] + 1}}

NoStats == <<>>
NoRun == [ran |-> FALSE]
NoConfig == [kind |-> "none", names |-> <<>>]
NoDirectory == [exists |-> FALSE, files |-> {}]
NoOutcome == [connector |-> [raised |-> "", dataset |-> <<>>], raised |-> ""]

\* no job has run and no load was attempted
JobIdle ==
    /\ previous_run = NoRun
    /\ stored_alerts = {}
    /\ dataset_dir = NoDirectory
    /\ op_config = NoConfig
    /\ op_outcome = NoOutcome

\* ------------------------------------------- specification SpecRanges
\* _positions_to_ranges and the max_consecutive_run derived from it, applied
\* to an arbitrary list of row positions.
InitRanges ==
    /\ pc = "positions"
    /\ positions \in SeqsUpTo(0..MaxPos, MaxPosLen)
    /\ row_ranges = <<>>
    /\ max_run = 0
    /\ column_series = NoSeries
    /\ column_statistics = NoStats
    /\ loaded_dataset = <<>>
    /\ dataset_statistics = NoStats
    /\ alert_candidates = <<>>
    /\ row_contexts = <<>>
    /\ clock = 0
    /\ JobIdle

PositionsToRanges ==
    /\ pc = "positions"
    /\ row_ranges' = _positions_to_ranges(positions)
    /\ max_run' = MaxRangeCount(_positions_to_ranges(positions))
    /\ pc' = "ranged"
    /\ UNCHANGED <<positions, column_series, column_statistics, loaded_dataset, dataset_statistics,
                   alert_candidates, row_contexts, clock, jobvars>>

NextRanges == PositionsToRanges

SpecRanges == InitRanges /\ [][NextRanges]_vars

\* ------------------------------------------- specification SpecColumn
\* analyze_column applied to one column with the default positional index.
InitColumn ==
    /\ pc = "column"
    /\ \E values \in ColumnInputs : column_series = Series(RangeIndex(Len(values)), values)
    /\ column_statistics = NoStats
    /\ positions = <<>>
    /\ row_ranges = <<>>
    /\ max_run = 0
    /\ loaded_dataset = <<>>
    /\ dataset_statistics = NoStats
    /\ alert_candidates = <<>>
    /\ row_contexts = <<>>
    /\ clock = 0
    /\ JobIdle

AnalyzeColumn ==
    /\ pc = "column"
    /\ column_statistics' = analyze_column(TableT, ColA, column_series)
    /\ pc' = "analyzed"
    /\ UNCHANGED <<positions, row_ranges, max_run, column_series, loaded_dataset, dataset_statistics,
                   alert_candidates, row_contexts, clock, jobvars>>

NextColumn == AnalyzeColumn

SpecColumn == InitColumn /\ [][NextColumn]_vars

\* ------------------------------------------- specification SpecContext
\* _extract_row_context applied to row ranges over column b of a table.
InitContext ==
    /\ pc = "context"
    /\ \E r \in 0..MaxCtxRows : loaded_dataset = <<Table(TableT, NumberedFrame(r))>>
    /\ row_ranges \in RangeInputs
    /\ positions = <<>>
    /\ max_run = 0
    /\ column_series = NoSeries
    /\ column_statistics = NoStats
    /\ dataset_statistics = NoStats
    /\ alert_candidates = <<>>
    /\ row_contexts = <<>>
    /\ clock = 0
    /\ JobIdle

ExtractRowContext ==
    /\ pc = "context"
    /\ row_contexts' = _extract_row_context(loaded_dataset[1].df, ColB,
                       [row_ranges |-> row_ranges,
                        total_count |-> SumSeq([i \in DOMAIN row_ranges |-> row_ranges[i].count]),
                        max_consecutive_run |-> MaxRangeCount(row_ranges)],
                       MAX_ALERT_CONTEXT_ROWS)
    /\ pc' = "extracted"
    /\ UNCHANGED <<positions, row_ranges, max_run, column_series, column_statistics,
                   loaded_dataset, dataset_statistics, alert_candidates, clock, jobvars>>

NextContext == ExtractRowContext

SpecContext == InitContext /\ [][NextContext]_vars

\* ------------------------------------------------- specification Spec
\* statistics_job on a loaded dataset: compute_statistics_op, then
\* extract_alerts_op building the alert candidates.
Init ==
    /\ pc = "loaded"
    /\ loaded_dataset \in Datasets
    /\ dataset_statistics = NoStats
    /\ alert_candidates = <<>>
    /\ positions = <<>>
    /\ row_ranges = <<>>
    /\ max_run = 0
    /\ column_series = NoSeries
    /\ column_statistics = NoStats
    /\ row_contexts = <<>>
    /\ clock = 0
    /\ JobIdle

ComputeStatistics ==
    /\ pc = "loaded"
    /\ dataset_statistics' = compute_statistics(loaded_dataset, clock)
    /\ pc' = "computed"
    /\ UNCHANGED <<positions, row_ranges, max_run, column_series, column_statistics,
                   loaded_dataset, alert_candidates, row_contexts, clock, jobvars>>

BuildAlertCandidates ==
    /\ pc = "computed"
    /\ alert_candidates' = build_alert_candidates(loaded_dataset, dataset_statistics, MAX_ALERT_CONTEXT_ROWS, clock)
    /\ pc' = "alerted"
    /\ UNCHANGED <<positions, row_ranges, max_run, column_series, column_statistics,
                   loaded_dataset, dataset_statistics, row_contexts, clock, jobvars>>

Next == ComputeStatistics \/ BuildAlertCandidates

Spec == Init /\ [][Next]_vars

\* -------------------------------------------------- specification SpecJob
\* statistics_job run again and again against one alert store, on a dataset
\* that is loaded anew for every run, while the clock advances.
MaxClock == 2      \* last instant of the clock
MaxJobRows == 2    \* most rows of the table of a job run

JobCells == {NULL, Num(1)}
JobDatasets ==
    {<<Table(TableT, DataFrame(<<>>, <<>>, <<>>))>>}
      \cup UNION {{<<Table(TableT, DataFrame(RangeIndex(r), <<ColB>>, <<cells>>))>> :
                      cells \in [1..r -> JobCells]} : r \in 0..MaxJobRows}

InitJob ==
    /\ pc = "loaded"
    /\ loaded_dataset \in JobDatasets
    /\ dataset_statistics = NoStats
    /\ alert_candidates = <<>>
    /\ positions = <<>>
    /\ row_ranges = <<>>
    /\ max_run = 0
    /\ column_series = NoSeries
    /\ column_statistics = NoStats
    /\ row_contexts = <<>>
    /\ clock = 0
    /\ JobIdle

\* time passes
Tick ==
    /\ clock < MaxClock
    /\ clock' = clock + 1
    /\ UNCHANGED <<pc, positions, row_ranges, max_run, column_series, column_statistics,
                   loaded_dataset, dataset_statistics, alert_candidates, row_contexts, jobvars>>

\* extract_alerts_op: the candidates are built and, unless there is none,
\* persisted
ExtractAlertsOp ==
    /\ pc = "computed"
    /\ alert_candidates' = build_alert_candidates(loaded_dataset, dataset_statistics,
                                                  MAX_ALERT_CONTEXT_ROWS, clock)
    /\ stored_alerts' = extract_alerts_op(stored_alerts, alert_candidates')
    /\ pc' = "alerted"
    /\ UNCHANGED <<positions, row_ranges, max_run, column_series, column_statistics,
                   loaded_dataset, dataset_statistics, row_contexts, clock,
                   previous_run, dataset_dir, op_config, op_outcome>>

\* the next run of the job starts on the dataset as it is then
NextRun ==
    /\ pc = "alerted"
    /\ previous_run' = [ran |-> TRUE, dataset |-> loaded_dataset,
                        statistics |-> dataset_statistics, alerts |-> alert_candidates]
    /\ loaded_dataset' \in JobDatasets
    /\ dataset_statistics' = NoStats
    /\ alert_candidates' = <<>>
    /\ pc' = "loaded"
    /\ UNCHANGED <<positions, row_ranges, max_run, column_series, column_statistics,
                   row_contexts, clock, stored_alerts, dataset_dir, op_config, op_outcome>>

NextJob == ComputeStatistics \/ ExtractAlertsOp \/ NextRun \/ Tick

SpecJob == InitJob /\ [][NextJob]_vars

\* ------------------------------------------------ specification SpecKeyed
\* analyze_column applied to one column whose index is not the default one:
\* its keys are in any order and may repeat.
IndexKeys == {0, 1, 7}
KeyedColumns ==
    UNION {{Series(index, values) : index \in [1..r -> IndexKeys], values \in [1..r -> FrameCells]} :
              r \in 1..MaxKeyedRows}

InitKeyed ==
    /\ pc = "column"
    /\ column_series \in KeyedColumns
    /\ column_statistics = NoStats
    /\ positions = <<>>
    /\ row_ranges = <<>>
    /\ max_run = 0
    /\ loaded_dataset = <<>>
    /\ dataset_statistics = NoStats
    /\ alert_candidates = <<>>
    /\ row_contexts = <<>>
    /\ clock = 0
    /\ JobIdle

NextKeyed == AnalyzeColumn

SpecKeyed == InitKeyed /\ [][NextKeyed]_vars

\* ------------------------------------------------- specification SpecLoad
\* load_dataset_op with the CSV connector, on a dataset directory and a
\* "tables" entry of the dataset configuration.
MaxTables == 2     \* most table names of a "tables" list

TableNames == {TableT, TableS, ColA}
TableConfigs ==
    {[kind |-> "none", names |-> <<>>], [kind |-> "number", names |-> <<>>]}
      \cup {[kind |-> "str", names |-> <<name>>] : name \in TableNames}
      \cup {[kind |-> "list", names |-> names] : names \in SeqsUpTo(TableNames, MaxTables)}
Directories ==
    {NoDirectory} \cup {[exists |-> TRUE, files |-> files] : files \in SUBSET TableNames}

InitLoad ==
    /\ pc = "configured"
    /\ dataset_dir \in Directories
    /\ op_config \in TableConfigs
    /\ op_outcome = NoOutcome
    /\ previous_run = NoRun
    /\ stored_alerts = {}
    /\ loaded_dataset = <<>>
    /\ dataset_statistics = NoStats
    /\ alert_candidates = <<>>
    /\ positions = <<>>
    /\ row_ranges = <<>>
    /\ max_run = 0
    /\ column_series = NoSeries
    /\ column_statistics = NoStats
    /\ row_contexts = <<>>
    /\ clock = 0

\* load_dataset_op: the dataset is handed on when the op returns
LoadDatasetOp ==
    /\ pc = "configured"
    /\ op_outcome' = load_dataset_op(dataset_dir, op_config)
    /\ loaded_dataset' = IF op_outcome'.raised = "" THEN op_outcome'.connector.dataset
                         ELSE loaded_dataset
    /\ pc' = IF op_outcome'.raised = "" THEN "loaded" ELSE "failed"
    /\ UNCHANGED <<positions, row_ranges, max_run, column_series, column_statistics,
                   dataset_statistics, alert_candidates, row_contexts, clock,
                   previous_run, stored_alerts, dataset_dir, op_config>>

NextLoad == LoadDatasetOp

SpecLoad == InitLoad /\ [][NextLoad]_vars

\* ------------------------------------------------------------------ properties
\* the check of that name in a checks list, and whether there is exactly one
ChecksNamed(checks, name) == {i \in DOMAIN checks : checks[i].name = name}
CheckNamed(checks, name) == checks[CHOOSE i \in ChecksNamed(checks, name) : TRUE]

IsSkipped(check) ==
    /\ check.passed
    /\ check.severity = "info"
    /\ "reason" \in DOMAIN check.metrics
    /\ check.metrics.reason # ""

PresentAsSkipped(checks, name) ==
    /\ Cardinality(ChecksNamed(checks, name)) = 1
    /\ IsSkipped(CheckNamed(checks, name))

\* the numeric cells and the distinct non-null cells of the analysed column
NumericCells ==
    {i \in DOMAIN column_series.values : column_series.values[i].kind \in {"num", "numstr"}}
DistinctNonNull ==
    {column_series.values[i] : i \in {j \in DOMAIN column_series.values :
                                          ~isna(column_series.values[j])}}

\* C1: issue_summary is a scan of the checks list: failed_checks counts the
\* checks with passed = false, critical_checks <= failed_checks, total_checks
\* is the length of the list, passed + failed = total and
\* warning + critical = failed.
C1_IssueSummaryScansChecks ==
    pc = "analyzed" =>
        LET checks == column_statistics.checks
            s == column_statistics.issue_summary
        IN  /\ s.failed_checks = Cardinality({i \in DOMAIN checks : ~checks[i].passed})
            /\ s.critical_checks <= s.failed_checks
            /\ s.total_checks = Len(checks)
            /\ s.passed_checks + s.failed_checks = s.total_checks
            /\ s.warning_checks + s.critical_checks = s.failed_checks

\* a column with failed checks of both severities and passed checks
C1_Witness ==
    /\ pc = "analyzed"
    /\ column_statistics.issue_summary.critical_checks >= 1
    /\ column_statistics.issue_summary.warning_checks >= 1
    /\ column_statistics.issue_summary.passed_checks >= 1

\* the degeneracies of C2 other than the one on the number of numeric values
DegeneraciesSkipped(checks, metrics) ==
    /\ ("variance" \in DOMAIN metrics /\ metrics.variance.num = 0)
          => PresentAsSkipped(checks, "z_score_outliers")
    /\ ("iqr" \in DOMAIN metrics /\ metrics.iqr.num = 0)
          => PresentAsSkipped(checks, "iqr_outliers")
    /\ ("mad" \in DOMAIN metrics /\ metrics.mad.num = 0)
          => PresentAsSkipped(checks, "modified_z_score")
    /\ Cardinality(DistinctNonNull) < 2 => PresentAsSkipped(checks, "entropy")
    /\ Len(column_series.values) = 0
          => /\ PresentAsSkipped(checks, "null_ratio")
             /\ PresentAsSkipped(checks, "null_run_length")

\* C2 (as amended): a degeneracy leaves its check in the list as a skipped
\* check (passed, severity info, non-empty reason): z_score_outliers when
\* std_dev = 0, iqr_outliers when iqr = 0, modified_z_score when mad = 0,
\* entropy with fewer than 2 distinct non-null values, null_ratio and
\* null_run_length with zero rows, and skewness and kurtosis when the column
\* holds one or two numeric values.
C2_DegeneraciesAreSkippedChecks ==
    pc = "analyzed" =>
        /\ DegeneraciesSkipped(column_statistics.checks, column_statistics.metrics)
        /\ Cardinality(NumericCells) \in 1..2
              => /\ PresentAsSkipped(column_statistics.checks, "skewness")
                 /\ PresentAsSkipped(column_statistics.checks, "kurtosis")

\* a column of two equal numbers: std_dev, iqr and mad are zero, one distinct
\* value, fewer than three numeric values
C2_Witness ==
    /\ pc = "analyzed"
    /\ Cardinality(NumericCells) = 2
    /\ Cardinality(DistinctNonNull) = 1
    /\ column_statistics.metrics.variance.num = 0
    /\ column_statistics.metrics.iqr.num = 0
    /\ column_statistics.metrics.mad.num = 0
    /\ PresentAsSkipped(column_statistics.checks, "kurtosis")

\* C2 as stated: skewness and kurtosis are skipped checks of the list whenever
\* fewer than 3 numeric values exist, a column without numeric values included
C2_AsStated ==
    pc = "analyzed" =>
        /\ DegeneraciesSkipped(column_statistics.checks, column_statistics.metrics)
        /\ Cardinality(NumericCells) < 3
              => /\ PresentAsSkipped(column_statistics.checks, "skewness")
                 /\ PresentAsSkipped(column_statistics.checks, "kurtosis")

\* the rows (0-based) a check's row ranges cover
CoveredRows(check) ==
    UNION {check.locations.row_ranges[i].start .. check.locations.row_ranges[i]["end"] :
              i \in DOMAIN check.locations.row_ranges}

\* the longest run of consecutive integers in a finite set
RunFrom(S, s) == CHOOSE l \in 1..Cardinality(S) : (s..(s + l - 1)) \subseteq S /\ (s + l) \notin S
LongestRunOf(S) == IF S = {} THEN 0 ELSE MaxOf({RunFrom(S, s) : s \in S})

\* the rows of the analysed column holding a null, and those of its earliest
\* longest run of nulls
NullRows == {i - 1 : i \in {j \in DOMAIN column_series.values : isna(column_series.values[j])}}
LongestNullRunRows ==
    IF NullRows = {} THEN {}
    ELSE LET l == LongestRunOf(NullRows)
             s == MinOf({r \in NullRows : (r..(r + l - 1)) \subseteq NullRows})
         IN  s..(s + l - 1)

\* the rows whose non-null cell occurs more than once, and the rows holding `value`
DuplicatedRows ==
    {i - 1 : i \in {j \in DOMAIN column_series.values :
                       /\ ~isna(column_series.values[j])
                       /\ \E k \in DOMAIN column_series.values :
                             k # j /\ column_series.values[k] = column_series.values[j]}}
RowsHolding(value) ==
    {i - 1 : i \in {j \in DOMAIN column_series.values : column_series.values[j] = value}}

EvidenceChecks ==
    {"null_ratio", "null_run_length", "distinct_ratio", "dominant_category",
     "z_score_outliers", "iqr_outliers", "modified_z_score"}
AggregateChecks == {"entropy", "low_variance", "skewness", "kurtosis"}

\* between 1 and 20 samples of (row_number, row_index, value), non-empty row
\* ranges, total_count the number of rows they cover and max_consecutive_run
\* the longest run among them
HasRowEvidence(check) ==
    /\ Len(check.samples) >= 1
    /\ Len(check.samples) <= 20
    /\ \A i \in DOMAIN check.samples :
          DOMAIN check.samples[i] = {"row_number", "row_index", "value"}
    /\ check.locations # NoLocations
    /\ check.locations.row_ranges # <<>>
    /\ check.locations.total_count = Cardinality(CoveredRows(check))
    /\ check.locations.max_consecutive_run = LongestRunOf(CoveredRows(check))
    /\ \A i \in DOMAIN check.samples : check.samples[i].row_number \in CoveredRows(check)

\* the row ranges cover exactly the rows the check flags
OffendersLocated(check) ==
    CASE check.name = "null_ratio" -> CoveredRows(check) = NullRows
      [] check.name = "null_run_length" -> CoveredRows(check) = LongestNullRunRows
      [] check.name = "distinct_ratio" -> CoveredRows(check) = DuplicatedRows
      [] check.name = "dominant_category" ->
            CoveredRows(check) = RowsHolding(check.metrics.most_frequent_value)
      [] OTHER -> /\ Cardinality(CoveredRows(check)) = check.metrics.outlier_count
                  /\ CoveredRows(check) \subseteq {i - 1 : i \in NumericCells}

\* C3 (as amended): every failing null_ratio, null_run_length, distinct_ratio,
\* dominant_category, z_score_outliers, iqr_outliers and modified_z_score
\* check carries row evidence: 1 to 20 samples, non-empty row ranges covering
\* the offending rows, total_count their number (also above 20) and
\* max_consecutive_run their longest run; a failing entropy, low_variance,
\* skewness or kurtosis check carries no samples and no locations.
C3_FailingChecksCarryRowEvidence ==
    pc = "analyzed" =>
        \A i \in DOMAIN column_statistics.checks :
            LET check == column_statistics.checks[i]
            IN  ~check.passed =>
                    /\ check.name \in EvidenceChecks \cup AggregateChecks
                    /\ check.name \in EvidenceChecks
                          => HasRowEvidence(check) /\ OffendersLocated(check)
                    /\ check.name \in AggregateChecks
                          => check.samples = <<>> /\ check.locations = NoLocations

\* a failing check with more than 20 offending rows in several ranges
C3_Witness ==
    /\ pc = "analyzed"
    /\ \E i \in DOMAIN column_statistics.checks :
          LET check == column_statistics.checks[i]
          IN  /\ ~check.passed
              /\ check.locations # NoLocations
              /\ check.locations.total_count > 20
              /\ Len(check.samples) = 20
              /\ Len(check.locations.row_ranges) >= 2

\* C3 as stated: every failing check of the battery carries row evidence
C3_AsStated ==
    pc = "analyzed" =>
        \A i \in DOMAIN column_statistics.checks :
            ~column_statistics.checks[i].passed => HasRowEvidence(column_statistics.checks[i])

\* C4: the ranges are ascending, non-overlapping, non-adjacent, well formed,
\* cover exactly the input positions, and max_consecutive_run is the largest
\* range count.
C4_RangesPartitionPositions ==
    pc = "ranged" =>
        /\ \A i \in DOMAIN row_ranges :
              /\ row_ranges[i].start <= row_ranges[i].end
              /\ row_ranges[i].count = row_ranges[i].end - row_ranges[i].start + 1
        /\ \A i \in DOMAIN row_ranges :
              i > 1 => row_ranges[i].start > row_ranges[i - 1].end + 1
        /\ UNION {row_ranges[i].start .. row_ranges[i].end : i \in DOMAIN row_ranges}
              = SeqRange(positions)
        /\ max_run = IF row_ranges = <<>> THEN 0
                     ELSE MaxOf({row_ranges[i].end - row_ranges[i].start + 1 : i \in DOMAIN row_ranges})

\* unsorted positions with a repeat that merge into at least two ranges, one
\* of them longer than a single row
C4_Witness ==
    /\ pc = "ranged"
    /\ Len(row_ranges) >= 2
    /\ max_run >= 2
    /\ Len(positions) > Cardinality(SeqRange(positions))
    /\ \E i \in DOMAIN positions : i > 1 /\ positions[i] < positions[i - 1]

\* the failing checks of the computed statistics as <<column, check>> positions,
\* in the order of statistics.columns and of each checks list
FailingChecks ==
    UNION {{<<c, k>> : k \in {j \in DOMAIN dataset_statistics.columns[c].checks :
                                 ~dataset_statistics.columns[c].checks[j].passed}} :
              c \in DOMAIN dataset_statistics.columns}
ComesBefore(p, q) == p[1] < q[1] \/ (p[1] = q[1] /\ p[2] < q[2])
RankOf(p) == Cardinality({q \in FailingChecks : ComesBefore(q, p)}) + 1

IsColumnLevel(alert) == alert.column # NoneName
ColumnLevelAlerts == SelectSeq(alert_candidates, IsColumnLevel)

\* C5: one column-level candidate per failing check and none for a passing
\* one, in the order of the columns and of their checks, all before the
\* table-level candidates, each named table.column::check_name with the
\* check's severity and message; their number is the dataset's failed_checks.
C5_OneColumnAlertPerFailingCheck ==
    pc = "alerted" =>
        /\ Len(ColumnLevelAlerts) = Cardinality(FailingChecks)
        /\ \A p \in FailingChecks :
              LET col == dataset_statistics.columns[p[1]]
                  check == col.checks[p[2]]
                  alert == ColumnLevelAlerts[RankOf(p)]
              IN  /\ alert.table = col.table
                  /\ alert.column = col.column
                  /\ alert.check_name = check.name
                  /\ alert.name = col.table \o <<".">> \o col.column \o <<":", ":", check.name>>
                  /\ alert.severity = check.severity
                  /\ alert.message = check.message
        /\ \A i, j \in DOMAIN alert_candidates :
              (i < j /\ ~IsColumnLevel(alert_candidates[i])) => ~IsColumnLevel(alert_candidates[j])
        /\ Len(ColumnLevelAlerts) = dataset_statistics.metrics.failed_checks

\* two tables with failing checks, one of them with passing checks too
C5_Witness ==
    /\ pc = "alerted"
    /\ Len(dataset_statistics.tables) = 2
    /\ \A t \in DOMAIN dataset_statistics.tables :
          dataset_statistics.tables[t].issue_summary.failed_checks >= 2
    /\ \E c \in DOMAIN dataset_statistics.columns :
          dataset_statistics.columns[c].issue_summary.passed_checks >= 1
    /\ Len(ColumnLevelAlerts) >= 4
    /\ Len(alert_candidates) = Len(ColumnLevelAlerts) + 2

\* the table-level candidates of a table
SummaryAlerts(table) ==
    {i \in DOMAIN alert_candidates :
        ~IsColumnLevel(alert_candidates[i]) /\ alert_candidates[i].table = table}

\* some check of a column of the table failed with severity critical
HasCriticalCheck(table) ==
    \E c \in DOMAIN dataset_statistics.columns :
        /\ dataset_statistics.columns[c].table = table
        /\ \E k \in DOMAIN dataset_statistics.columns[c].checks :
              /\ ~dataset_statistics.columns[c].checks[k].passed
              /\ dataset_statistics.columns[c].checks[k].severity = "critical"

\* C6: one table-level candidate for each table whose failed_checks > 0 and
\* none for any other table, named table::summary_issues, with column null
\* and severity critical iff a column check of the table failed as critical,
\* else warning; a table has one iff it has a column-level candidate.
C6_OneSummaryAlertPerFailingTable ==
    pc = "alerted" =>
        /\ \A t \in DOMAIN dataset_statistics.tables :
              LET table_stats == dataset_statistics.tables[t]
                  summary == SummaryAlerts(table_stats.table)
              IN  /\ table_stats.issue_summary.failed_checks = 0 => summary = {}
                  /\ table_stats.issue_summary.failed_checks > 0 =>
                        /\ Cardinality(summary) = 1
                        /\ \A i \in summary :
                              /\ alert_candidates[i].name
                                    = table_stats.table \o <<":", ":", "summary_issues">>
                              /\ alert_candidates[i].column = NoneName
                              /\ alert_candidates[i].severity
                                    = IF HasCriticalCheck(table_stats.table)
                                      THEN "critical" ELSE "warning"
                  /\ (summary # {}) <=>
                        \E i \in DOMAIN alert_candidates :
                            /\ IsColumnLevel(alert_candidates[i])
                            /\ alert_candidates[i].table = table_stats.table
        /\ \A i \in DOMAIN alert_candidates :
              \E t \in DOMAIN dataset_statistics.tables :
                  dataset_statistics.tables[t].table = alert_candidates[i].table

\* two tables, one with a critical summary candidate and failed warnings
\* too, the other with columns but neither failed checks nor candidates
C6_Witness ==
    /\ pc = "alerted"
    /\ Len(dataset_statistics.tables) = 2
    /\ \E i \in DOMAIN alert_candidates :
          /\ ~IsColumnLevel(alert_candidates[i])
          /\ alert_candidates[i].severity = "critical"
          /\ alert_candidates[i].details.issue_summary.warning_checks > 0
    /\ \E t \in DOMAIN dataset_statistics.tables :
          /\ dataset_statistics.tables[t].column_count > 0
          /\ dataset_statistics.tables[t].issue_summary.failed_checks = 0
          /\ SummaryAlerts(dataset_statistics.tables[t].table) = {}

\* C7 (as amended): the row_context of a column-level candidate holds one
\* block per row range of the failing check, however many ranges there are,
\* and each block holds at most 5 rows.
C7_OneContextBlockPerRowRange ==
    pc = "alerted" =>
        \A i \in DOMAIN alert_candidates :
            LET alert == alert_candidates[i]
            IN  IsColumnLevel(alert) =>
                    /\ Len(alert.details.row_context)
                          = IF alert.details.locations = NoLocations THEN 0
                            ELSE Len(alert.details.locations.row_ranges)
                    /\ \A b \in DOMAIN alert.details.row_context :
                          Len(alert.details.row_context[b].row_samples) <= 5

\* a candidate whose check carries more than 5 row ranges
C7_Witness ==
    /\ pc = "alerted"
    /\ \E i \in DOMAIN alert_candidates :
          /\ IsColumnLevel(alert_candidates[i])
          /\ alert_candidates[i].details.locations # NoLocations
          /\ Len(alert_candidates[i].details.locations.row_ranges) > 5
          /\ Len(alert_candidates[i].details.row_context) > 5

\* C7 as stated: at most 5 row-context blocks per column-level candidate
C7_AsStated ==
    pc = "alerted" =>
        \A i \in DOMAIN alert_candidates :
            IsColumnLevel(alert_candidates[i])
                => Len(alert_candidates[i].details.row_context) <= 5

\* the row ranges given to _extract_row_context that start inside the table
RangesInsideTable ==
    SelectSeq(row_ranges, LAMBDA r : r.start < df_rows(loaded_dataset[1].df))

\* C8: each block holds at most 5 row samples, the consecutive table rows
\* from the range start, none past the range end or the last table row; a
\* range starting past the last row yields no block; sample i has
\* row_number = start + i and a row_snapshot with the value of every column
\* of the table.
C8_ContextBlockRows ==
    pc = "extracted" =>
        LET df == loaded_dataset[1].df
        IN  /\ Len(row_contexts) = Len(RangesInsideTable)
            /\ \A b \in DOMAIN row_contexts :
                  LET range == RangesInsideTable[b]
                      row_samples == row_contexts[b].row_samples
                      expected == MinOf({5, range["end"] - range.start + 1,
                                         df_rows(df) - range.start})
                  IN  /\ row_contexts[b].range = range
                      /\ Len(row_samples) = expected
                      /\ \A i \in DOMAIN row_samples :
                            /\ row_samples[i].row_number = range.start + (i - 1)
                            /\ row_samples[i].row_number <= range["end"]
                            /\ row_samples[i].row_number < df_rows(df)
                            /\ DOMAIN row_samples[i].row_snapshot = SeqRange(df.columns)
                            /\ \A k \in DOMAIN df.columns :
                                  row_samples[i].row_snapshot[df.columns[k]]
                                      = df.cells[k][row_samples[i].row_number + 1]
                            /\ row_samples[i].value = df.cells[1][row_samples[i].row_number + 1]

\* a range longer than 5 rows cut to 5, a second range cut by the end of the
\* table
C8_Witness ==
    /\ pc = "extracted"
    /\ Len(row_ranges) = 2
    /\ Len(row_contexts) = 2
    /\ row_ranges[1].count > 5
    /\ Len(row_contexts[1].row_samples) = 5
    /\ row_ranges[2]["end"] >= df_rows(loaded_dataset[1].df)
    /\ Len(row_contexts[2].row_samples) < row_ranges[2].count

\* C9: with rows, null_ratio passes iff null_count / total <= 0.10 and a
\* failing one is critical iff null_count / total >= 0.50, else warning;
\* without rows the check is skipped and metrics.null_ratio is null.
C9_NullRatioThresholds ==
    pc = "analyzed" =>
        LET total == Len(column_series.values)
            null_count == Cardinality(NullRows)
            check == CheckNamed(column_statistics.checks, "null_ratio")
        IN  /\ Cardinality(ChecksNamed(column_statistics.checks, "null_ratio")) = 1
            /\ total > 0 =>
                  /\ check.passed <=> (10 * null_count <= total)
                  /\ ~check.passed =>
                        /\ (check.severity = "critical") <=> (2 * null_count >= total)
                        /\ check.severity \in {"critical", "warning"}
            /\ total = 0 =>
                  /\ IsSkipped(check)
                  /\ column_statistics.metrics.null_ratio = None

\* a null ratio of exactly 0.10, which passes
C9_Witness ==
    /\ pc = "analyzed"
    /\ Cardinality(NullRows) > 0
    /\ 10 * Cardinality(NullRows) = Len(column_series.values)
    /\ CheckNamed(column_statistics.checks, "null_ratio").passed

\* C10 (as amended): with rows and a longest null run L, null_run_length
\* passes iff L < max(5, floor(total / 10)) and a failing one is critical iff
\* L >= max(10, floor(3 * total / 10)), else warning.
C10_NullRunThresholdsTruncated ==
    (pc = "analyzed" /\ Len(column_series.values) > 0) =>
        LET total == Len(column_series.values)
            L == LongestRunOf(NullRows)
            check == CheckNamed(column_statistics.checks, "null_run_length")
        IN  /\ Cardinality(ChecksNamed(column_statistics.checks, "null_run_length")) = 1
            /\ check.passed <=> (L < 5 \/ L < total \div 10)
            /\ ~check.passed =>
                  /\ (check.severity = "critical") <=> (L >= 10 /\ L >= (3 * total) \div 10)
                  /\ check.severity \in {"critical", "warning"}

\* a run of 5 nulls in a column of more than 50 rows, not a multiple of 10:
\* the check fails
C10_Witness ==
    /\ pc = "analyzed"
    /\ Len(column_series.values) > 50
    /\ Len(column_series.values) % 10 # 0
    /\ LongestRunOf(NullRows) = 5
    /\ ~CheckNamed(column_statistics.checks, "null_run_length").passed

\* C10 as stated: the thresholds are 10% and 30% of the row count, not
\* rounded: L < max(5, total / 10) and L >= max(10, 3 * total / 10)
C10_AsStated ==
    (pc = "analyzed" /\ Len(column_series.values) > 0) =>
        LET total == Len(column_series.values)
            L == LongestRunOf(NullRows)
            check == CheckNamed(column_statistics.checks, "null_run_length")
        IN  /\ check.passed <=> (L < 5 \/ 10 * L < total)
            /\ ~check.passed =>
                  /\ (check.severity = "critical") <=> (L >= 10 /\ 10 * L >= 3 * total)
                  /\ check.severity \in {"critical", "warning"}

\* the rows (0-based) holding a non-null cell
NonNullRows ==
    {i - 1 : i \in {j \in DOMAIN column_series.values : ~isna(column_series.values[j])}}

\* C11: with a non-null value, distinct_ratio passes iff
\* distinct_count / non_null_count >= 0.02 or every non-null value is unique;
\* without non-null values the check is skipped and metrics.distinct_ratio is
\* null.
C11_DistinctRatioPasses ==
    pc = "analyzed" =>
        LET non_null_count == Cardinality(NonNullRows)
            distinct_count == Cardinality(DistinctNonNull)
            check == CheckNamed(column_statistics.checks, "distinct_ratio")
        IN  /\ Cardinality(ChecksNamed(column_statistics.checks, "distinct_ratio")) = 1
            /\ non_null_count > 0 =>
                  (check.passed <=> (50 * distinct_count >= non_null_count
                                     \/ distinct_count = non_null_count))
            /\ non_null_count = 0 =>
                  /\ IsSkipped(check)
                  /\ column_statistics.metrics.distinct_ratio = None

\* more than fifty non-null cells of one value: the ratio is below 0.02 and
\* the check fails
C11_Witness ==
    /\ pc = "analyzed"
    /\ Cardinality(DistinctNonNull) = 1
    /\ Cardinality(NonNullRows) > 50
    /\ ~CheckNamed(column_statistics.checks, "distinct_ratio").passed

\* the check of that name when it ran (is not skipped), else no check
RanNamed(name) ==
    {column_statistics.checks[i] : i \in
        {j \in ChecksNamed(column_statistics.checks, name) :
            ~IsSkipped(column_statistics.checks[j])}}

OutlierChecks == {"z_score_outliers", "iqr_outliers", "modified_z_score"}

NumericRows == {i - 1 : i \in NumericCells}
ValueAt(row) == column_series.values[row + 1].v

\* the k-th smallest numeric value, k in 1..numeric_count
OrderStatistic(k) ==
    CHOOSE x \in {ValueAt(r) : r \in NumericRows} :
        /\ Cardinality({r \in NumericRows : ValueAt(r) < x}) < k
        /\ Cardinality({r \in NumericRows : ValueAt(r) <= x}) >= k

\* four times the quantile at j / 4 by linear interpolation between the
\* neighbouring order statistics
InterpolatedQuartileTimes4(j) ==
    LET h == (Cardinality(NumericRows) - 1) * j
        below == OrderStatistic(h \div 4 + 1)
    IN  IF h % 4 = 0 THEN 4 * below
        ELSE 4 * below + (h % 4) * (OrderStatistic(h \div 4 + 2) - below)

\* the rows whose value lies strictly outside [q1 - 1.5 iqr, q3 + 1.5 iqr];
\* the comparison is scaled by 8
OutsideFences ==
    LET q1 == InterpolatedQuartileTimes4(1)
        q3 == InterpolatedQuartileTimes4(3)
    IN  {r \in NumericRows : \/ 8 * ValueAt(r) < 2 * q1 - 3 * (q3 - q1)
                             \/ 8 * ValueAt(r) > 2 * q3 + 3 * (q3 - q1)}

\* C13: with numeric values and iqr # 0, iqr_outliers flags exactly the
\* values strictly outside the fences q1 - 1.5 iqr and q3 + 1.5 iqr,
\* outlier_count is their number, the check passes iff
\* outlier_count / numeric_count <= 0.05 and a failing one is critical iff
\* the ratio is >= 0.15; with iqr = 0 the check is skipped.
C13_IqrOutliers ==
    (pc = "analyzed" /\ NumericRows # {}) =>
        LET check == CheckNamed(column_statistics.checks, "iqr_outliers")
            n == Cardinality(NumericRows)
            count == Cardinality(OutsideFences)
        IN  /\ Cardinality(ChecksNamed(column_statistics.checks, "iqr_outliers")) = 1
            /\ InterpolatedQuartileTimes4(3) = InterpolatedQuartileTimes4(1)
                  => IsSkipped(check)
            /\ InterpolatedQuartileTimes4(3) # InterpolatedQuartileTimes4(1) =>
                  /\ ~IsSkipped(check)
                  /\ check.metrics.outlier_count = count
                  /\ count > 0 => CoveredRows(check) = OutsideFences
                  /\ count = 0 => check.samples = <<>>
                  /\ check.passed <=> (20 * count <= n)
                  /\ ~check.passed =>
                        /\ (check.severity = "critical") <=> (100 * count >= 15 * n)
                        /\ check.severity \in {"critical", "warning"}

\* a value exactly on the upper fence, which is not flagged
C13_Witness ==
    /\ pc = "analyzed"
    /\ NumericRows # {}
    /\ InterpolatedQuartileTimes4(3) # InterpolatedQuartileTimes4(1)
    /\ \E r \in NumericRows :
          8 * ValueAt(r) = 5 * InterpolatedQuartileTimes4(3) - 3 * InterpolatedQuartileTimes4(1)
    /\ CheckNamed(column_statistics.checks, "iqr_outliers").metrics.outlier_count = 0

NumericMetricNames ==
    {"sum", "mean", "min", "max", "median", "std_dev", "variance", "q1", "q3", "iqr", "mad",
     "skewness", "kurtosis"}
NumericCheckNames ==
    {"low_variance", "z_score_outliers", "iqr_outliers", "modified_z_score", "skewness",
     "kurtosis"}
SumOfRows(S) == SumSeq([i \in 1..Cardinality(S) |-> OrderStatistic(i)])

\* C14: inferred_type is 'categorical' iff no non-null value coerces to a
\* number; then the checks end with a skipped numeric_profile check with
\* reason 'column does not contain numeric data' and no numeric metric or
\* check is produced; otherwise inferred_type is 'numeric' and the numeric
\* metrics and checks are computed over the numeric-coercible values only.
C14_InferredType ==
    pc = "analyzed" =>
        LET metrics == column_statistics.metrics
            checks == column_statistics.checks
            n == Cardinality(NumericRows)
        IN  /\ metrics.inferred_type \in {"categorical", "numeric"}
            /\ (metrics.inferred_type = "categorical") <=> (NumericRows = {})
            /\ NumericRows = {} =>
                  /\ checks # <<>>
                  /\ checks[Len(checks)].name = "numeric_profile"
                  /\ IsSkipped(checks[Len(checks)])
                  /\ checks[Len(checks)].metrics.reason = "column does not contain numeric data"
                  /\ DOMAIN metrics \cap NumericMetricNames = {}
                  /\ \A i \in DOMAIN checks : checks[i].name \notin NumericCheckNames
            /\ NumericRows # {} =>
                  /\ \A name \in NumericCheckNames : Cardinality(ChecksNamed(checks, name)) = 1
                  /\ ChecksNamed(checks, "numeric_profile") = {}
                  /\ metrics.sum.num = SumOfRows(NumericRows) * metrics.sum.den
                  /\ metrics.mean.num * n = SumOfRows(NumericRows) * metrics.mean.den
                  /\ metrics.min.num = OrderStatistic(1) * metrics.min.den
                  /\ metrics.max.num = OrderStatistic(n) * metrics.max.den
                  /\ 4 * metrics.median.num = InterpolatedQuartileTimes4(2) * metrics.median.den
                  /\ 4 * metrics.q1.num = InterpolatedQuartileTimes4(1) * metrics.q1.den
                  /\ 4 * metrics.q3.num = InterpolatedQuartileTimes4(3) * metrics.q3.den

\* a column whose only numeric value is a string that reads as a number,
\* beside a null and a string that does not
C14_Witness ==
    /\ pc = "analyzed"
    /\ column_statistics.metrics.inferred_type = "numeric"
    /\ \E i \in DOMAIN column_series.values : column_series.values[i].kind = "str"
    /\ \E i \in DOMAIN column_series.values : column_series.values[i].kind = "null"
    /\ \A i \in DOMAIN column_series.values : column_series.values[i].kind # "num"
    /\ column_statistics.metrics.sum = Ratio(2, 1)

\* every check of every analysed column of the dataset
AllChecks ==
    UNION {{dataset_statistics.columns[c].checks[k] :
               k \in DOMAIN dataset_statistics.columns[c].checks} :
              c \in DOMAIN dataset_statistics.columns}

\* C15: a check has severity 'info' iff it passed, a failed check has
\* severity 'warning' or 'critical', and no alert candidate has severity
\* 'info'.
C15_SeverityFollowsPassed ==
    /\ pc \in {"computed", "alerted"} =>
          \A check \in AllChecks :
              /\ (check.severity = "info") <=> check.passed
              /\ ~check.passed => check.severity \in {"warning", "critical"}
    /\ pc = "alerted" =>
          \A i \in DOMAIN alert_candidates :
              alert_candidates[i].severity \in {"warning", "critical"}
    /\ pc = "analyzed" =>
          \A k \in DOMAIN column_statistics.checks :
              LET check == column_statistics.checks[k]
              IN  /\ (check.severity = "info") <=> check.passed
                  /\ ~check.passed => check.severity \in {"warning", "critical"}

\* passed, warning and critical checks side by side, and candidates of both
\* severities at the column and at the table level
C15_Witness ==
    /\ pc = "alerted"
    /\ \E a, b, c \in AllChecks :
          /\ a.passed
          /\ ~b.passed /\ b.severity = "warning"
          /\ ~c.passed /\ c.severity = "critical"
    /\ \E i, j \in DOMAIN alert_candidates :
          /\ IsColumnLevel(alert_candidates[i]) /\ alert_candidates[i].severity = "warning"
          /\ IsColumnLevel(alert_candidates[j]) /\ alert_candidates[j].severity = "critical"
    /\ \E i \in DOMAIN alert_candidates :
          ~IsColumnLevel(alert_candidates[i]) /\ alert_candidates[i].severity = "critical"

\* a metric that is null or a number in [0, 1]
NullOrInUnit(r) == r = None \/ (r.kind = "ratio" /\ r.den > 0 /\ 0 <= r.num /\ r.num <= r.den)

\* C16: null_ratio, distinct_ratio and entropy_ratio are each present in the
\* metrics of a column as a number in [0,1] or as null; null_ratio is null
\* iff total_count = 0, distinct_ratio is null iff the column has no
\* non-null value, and entropy_ratio is null whenever the column has fewer
\* than 2 distinct non-null values.
C16_RatiosInUnitOrNull ==
    pc = "analyzed" =>
        LET metrics == column_statistics.metrics
        IN  /\ {"null_ratio", "distinct_ratio", "entropy_ratio"} \subseteq DOMAIN metrics
            /\ NullOrInUnit(metrics.null_ratio)
            /\ NullOrInUnit(metrics.distinct_ratio)
            /\ NullOrInUnit(metrics.entropy_ratio)
            /\ (metrics.null_ratio = None) <=> (Len(column_series.values) = 0)
            /\ (metrics.distinct_ratio = None) <=> (NonNullRows = {})
            /\ Cardinality(DistinctNonNull) < 2 => metrics.entropy_ratio = None

\* the failing checks of the columns of a table, counted from its
\* ColumnStatistics
FailedChecksOf(table) ==
    Cardinality({p \in FailingChecks : dataset_statistics.columns[p[1]].table = table})

\* null_cell_ratio of the tables and of the dataset: in [0,1] or null, null
\* iff there is no cell
NullCellRatiosInUnit ==
    /\ \A t \in DOMAIN dataset_statistics.tables :
          LET metrics == dataset_statistics.tables[t].metrics
          IN  /\ "null_cell_ratio" \in DOMAIN metrics
              /\ NullOrInUnit(metrics.null_cell_ratio)
              /\ (metrics.null_cell_ratio = None) <=> (metrics.cell_count = 0)
    /\ "null_cell_ratio" \in DOMAIN dataset_statistics.metrics
    /\ NullOrInUnit(dataset_statistics.metrics.null_cell_ratio)
    /\ (dataset_statistics.metrics.null_cell_ratio = None)
          <=> (dataset_statistics.metrics.cell_count = 0)

\* C17 as stated: null_cell_ratio and failed_check_ratio_per_column are
\* within [0,1] or null, null_cell_ratio null iff cell_count = 0 and
\* failed_check_ratio_per_column null iff column_count = 0.
C17_AsStated ==
    pc \in {"computed", "alerted"} =>
        /\ NullCellRatiosInUnit
        /\ \A t \in DOMAIN dataset_statistics.tables :
              LET ts == dataset_statistics.tables[t]
              IN  /\ NullOrInUnit(ts.metrics.failed_check_ratio_per_column)
                  /\ (ts.metrics.failed_check_ratio_per_column = None) <=> (ts.column_count = 0)

\* C17: null_cell_ratio is within [0,1] or null, null iff cell_count = 0;
\* failed_check_ratio_per_column is null iff column_count = 0 and otherwise
\* the non-negative number failed_checks / column_count, which is not
\* bounded by 1.
C17_RatioMetrics ==
    pc \in {"computed", "alerted"} =>
        /\ NullCellRatiosInUnit
        /\ \A t \in DOMAIN dataset_statistics.tables :
              LET ts == dataset_statistics.tables[t]
                  ratio == ts.metrics.failed_check_ratio_per_column
              IN  /\ (ratio = None) <=> (ts.column_count = 0)
                  /\ ratio # None =>
                        /\ ratio.kind = "ratio" /\ ratio.den > 0 /\ ratio.num >= 0
                        /\ ratio.num * ts.column_count = FailedChecksOf(ts.table) * ratio.den

\* a table without columns, whose ratios are null, beside a table whose
\* columns fail more checks than there are columns and hold some nulls
C17_Witness ==
    /\ pc = "computed"
    /\ \E t, u \in DOMAIN dataset_statistics.tables :
          /\ dataset_statistics.tables[t].column_count = 0
          /\ dataset_statistics.tables[t].metrics.null_cell_ratio = None
          /\ dataset_statistics.tables[t].metrics.failed_check_ratio_per_column = None
          /\ dataset_statistics.tables[u].metrics.failed_check_ratio_per_column # None
          /\ dataset_statistics.tables[u].metrics.failed_check_ratio_per_column.num
                > dataset_statistics.tables[u].metrics.failed_check_ratio_per_column.den
          /\ dataset_statistics.tables[u].metrics.null_cell_ratio # None
          /\ dataset_statistics.tables[u].metrics.null_cell_ratio.num > 0

\* the ColumnStatistics (by position) of a table, and its failing checks of
\* a severity
ColumnsOf(table) ==
    {c \in DOMAIN dataset_statistics.columns : dataset_statistics.columns[c].table = table}
FailedWithSeverity(table, severity) ==
    Cardinality({p \in FailingChecks :
        /\ dataset_statistics.columns[p[1]].table = table
        /\ dataset_statistics.columns[p[1]].checks[p[2]].severity = severity})
NullCellsOf(df) ==
    Cardinality({p \in (DOMAIN df.columns) \X (DOMAIN df.index) : isna(df.cells[p[1]][p[2]])})

\* a sequence of names in strictly ascending order that lists exactly S
IsSortedListOf(names, S) ==
    /\ SeqRange(names) = S
    /\ \A i \in 1..(Len(names) - 1) : NameLess(names[i], names[i + 1])

\* C18: for every table, cell_count = row_count * column_count,
\* null_cell_ratio = (sum of the columns' null_count) / cell_count,
\* failed_check_ratio_per_column = (sum of the columns' failed checks) /
\* column_count, max_null_run is the maximum longest_null_run of its columns,
\* the failed, warning and critical counts are the sums over its columns,
\* columns_with_issues is the sorted set of its columns with a failed check
\* and critical_columns the sorted set of those with a critical failed
\* check, a subset of columns_with_issues.
C18_TableSummary ==
    pc \in {"computed", "alerted"} =>
        /\ Len(dataset_statistics.tables) = Len(loaded_dataset)
        /\ \A t \in DOMAIN dataset_statistics.tables :
              LET ts == dataset_statistics.tables[t]
                  df == loaded_dataset[t].df
                  cols == ColumnsOf(ts.table)
                  stats(c) == dataset_statistics.columns[c]
              IN  /\ ts.table = loaded_dataset[t].name
                  /\ ts.row_count = Len(df.index)
                  /\ ts.column_count = Len(df.columns)
                  /\ Cardinality(cols) = ts.column_count
                  /\ ts.metrics.cell_count = ts.row_count * ts.column_count
                  /\ ts.metrics.null_cell_count = NullCellsOf(df)
                  /\ ts.metrics.cell_count # 0 =>
                        ts.metrics.null_cell_ratio.num * ts.metrics.cell_count
                            = NullCellsOf(df) * ts.metrics.null_cell_ratio.den
                  /\ ts.column_count # 0 =>
                        ts.metrics.failed_check_ratio_per_column.num * ts.column_count
                            = FailedChecksOf(ts.table)
                                * ts.metrics.failed_check_ratio_per_column.den
                  /\ ts.metrics.max_null_run
                        = MaxOf({0} \cup {stats(c).metrics.longest_null_run : c \in cols})
                  /\ ts.issue_summary.failed_checks = FailedChecksOf(ts.table)
                  /\ ts.issue_summary.warning_checks = FailedWithSeverity(ts.table, "warning")
                  /\ ts.issue_summary.critical_checks = FailedWithSeverity(ts.table, "critical")
                  /\ IsSortedListOf(ts.issue_summary.columns_with_issues,
                        {stats(c).column : c \in {d \in cols :
                            \E k \in DOMAIN stats(d).checks : ~stats(d).checks[k].passed}})
                  /\ IsSortedListOf(ts.issue_summary.critical_columns,
                        {stats(c).column : c \in {d \in cols :
                            \E k \in DOMAIN stats(d).checks :
                                /\ ~stats(d).checks[k].passed
                                /\ stats(d).checks[k].severity = "critical"}})
                  /\ SeqRange(ts.issue_summary.critical_columns)
                        \subseteq SeqRange(ts.issue_summary.columns_with_issues)

\* a table of two columns, stored in the order b, a, that both fail a check,
\* only one of them critically, with nulls in a run of two or more
C18_Witness ==
    /\ pc = "computed"
    /\ \E t \in DOMAIN dataset_statistics.tables :
          LET ts == dataset_statistics.tables[t]
          IN  /\ loaded_dataset[t].df.columns = <<ColB, ColA>>
              /\ ts.issue_summary.columns_with_issues = <<ColA, ColB>>
              /\ Len(ts.issue_summary.critical_columns) = 1
              /\ ts.metrics.max_null_run >= 2
              /\ ts.metrics.null_cell_ratio # None
              /\ ts.metrics.null_cell_ratio.num > 0
              /\ ts.metrics.null_cell_ratio.num < ts.metrics.null_cell_ratio.den
              /\ ts.issue_summary.warning_checks > 0

\* the sum of a field over the TableStatistics
TablesSum(F(_)) ==
    SumSeq([t \in DOMAIN dataset_statistics.tables |-> F(dataset_statistics.tables[t])])

\* C19: the dataset-level metrics are the roll-up of the tables:
\* table_count is the number of tables, column_count the number of
\* ColumnStatistics and the sum of the tables' column_count, row_count,
\* cell_count and the failed, warning and critical counts the sums over the
\* TableStatistics, max_null_run the maximum over the tables, and
\* columns_with_issues the sorted list of table.column for exactly the
\* columns with a failed check.
C19_DatasetRollUp ==
    pc \in {"computed", "alerted"} =>
        LET metrics == dataset_statistics.metrics
            tables == dataset_statistics.tables
            columns == dataset_statistics.columns
        IN  /\ metrics.table_count = Len(tables)
            /\ metrics.table_count = Len(loaded_dataset)
            /\ metrics.column_count = Len(columns)
            /\ metrics.column_count = TablesSum(LAMBDA ts : ts.column_count)
            /\ metrics.row_count = TablesSum(LAMBDA ts : ts.row_count)
            /\ metrics.cell_count = TablesSum(LAMBDA ts : ts.metrics.cell_count)
            /\ metrics.failed_checks = TablesSum(LAMBDA ts : ts.issue_summary.failed_checks)
            /\ metrics.warning_checks = TablesSum(LAMBDA ts : ts.issue_summary.warning_checks)
            /\ metrics.critical_checks = TablesSum(LAMBDA ts : ts.issue_summary.critical_checks)
            /\ metrics.failed_checks = Cardinality(FailingChecks)
            /\ metrics.max_null_run
                  = MaxOf({0} \cup {tables[t].metrics.max_null_run : t \in DOMAIN tables})
            /\ IsSortedListOf(metrics.columns_with_issues,
                  {columns[c].table \o <<".">> \o columns[c].column :
                      c \in {d \in DOMAIN columns :
                                \E k \in DOMAIN columns[d].checks : ~columns[d].checks[k].passed}})
            /\ FailingChecks = {} => metrics.columns_with_issues = <<>>

\* two tables, stored in the order t, s, each with a column that fails a
\* check, and a null run in one of them
C19_Witness ==
    /\ pc = "computed"
    /\ dataset_statistics.metrics.table_count = 2
    /\ dataset_statistics.metrics.columns_with_issues
          = <<TableS \o <<".">> \o ColB, TableT \o <<".">> \o ColB>>
    /\ dataset_statistics.metrics.max_null_run >= 2
    /\ dataset_statistics.tables[1].metrics.max_null_run
          # dataset_statistics.tables[2].metrics.max_null_run
    /\ dataset_statistics.tables[1].row_count # dataset_statistics.tables[2].row_count

\* a scalar that JSON can carry: not a NaN of any kind
JsonSafeScalar(v) == v.kind \notin {"float_nan", "nan", "pynan"}

\* C20: every value nested in the details of an alert candidate (the
\* samples of the check and the value and row_snapshot of every row of its
\* row_context) is JSON-safe: a NaN has been normalized to null.
C20_DetailsAreJsonSafe ==
    pc = "alerted" =>
        \A a \in DOMAIN alert_candidates :
            IsColumnLevel(alert_candidates[a]) =>
                LET details == alert_candidates[a].details
                IN  /\ \A i \in DOMAIN details.samples : JsonSafeScalar(details.samples[i].value)
                    /\ \A b \in DOMAIN details.row_context :
                          \A j \in DOMAIN details.row_context[b].row_samples :
                              LET sample == details.row_context[b].row_samples[j]
                              IN  /\ JsonSafeScalar(sample.value)
                                  /\ \A col \in DOMAIN sample.row_snapshot :
                                        JsonSafeScalar(sample.row_snapshot[col])

\* the statistics without the instant they were generated at
WithoutGeneratedAt(statistics) ==
    [columns |-> statistics.columns, tables |-> statistics.tables, metrics |-> statistics.metrics]

\* this run is on the dataset of the run before it
RerunOnSameDataset == previous_run.ran /\ previous_run.dataset = loaded_dataset

\* on the dataset of the run before, the statistics are those of the run
\* before up to generated_at, and from equal statistics come equal candidates
SameResultsFromSameInputs ==
    /\ (pc \in {"computed", "alerted"} /\ RerunOnSameDataset)
          => WithoutGeneratedAt(dataset_statistics) = WithoutGeneratedAt(previous_run.statistics)
    /\ (pc = "alerted" /\ RerunOnSameDataset /\ previous_run.statistics = dataset_statistics)
          => alert_candidates = previous_run.alerts

\* compute_statistics leaves the dataset as it is, and build_alert_candidates
\* the dataset and the statistics
InputsLeftAlone ==
    /\ ComputeStatistics => loaded_dataset' = loaded_dataset
    /\ ExtractAlertsOp => (loaded_dataset' = loaded_dataset /\ dataset_statistics' = dataset_statistics)

C21_WitnessEqualStatistics ==
    /\ pc = "alerted"
    /\ RerunOnSameDataset
    /\ previous_run.statistics = dataset_statistics
    /\ clock # fromisoformat(dataset_statistics.generated_at)
    /\ alert_candidates # <<>>

\* the keys of a candidate list
CandidateKeys(alerts) == {alert_key(alerts[i]) : i \in DOMAIN alerts}

\* the rows that were active before the run and have no candidate in it
StaleRows == {row \in stored_alerts : row.status = "active"
                                      /\ row.key \notin CandidateKeys(alert_candidates')}

\* C22: after every statistics_job run, any stored alert that was active before
\* the run and whose key (table, column, check_name) is absent from the run's
\* candidate list is marked resolved, whatever the number of candidates of the
\* run, zero included.
C22_StaleAlertsResolved ==
    [][ExtractAlertsOp =>
          \A row \in StaleRows :
              /\ row \notin stored_alerts'
              /\ [key |-> row.key, status |-> "resolved"] \in stored_alerts']_vars

\* the same for the runs that produced at least one candidate
C22_ResolvedWhenCandidates ==
    [][(ExtractAlertsOp /\ alert_candidates' # <<>>) =>
          \A row \in StaleRows :
              /\ row \notin stored_alerts'
              /\ [key |-> row.key, status |-> "resolved"] \in stored_alerts']_vars

\* a run without candidates has ended while the store holds an active alert
C22_StaleAlertLeftActive ==
    /\ pc = "alerted"
    /\ alert_candidates = <<>>
    /\ \E row \in stored_alerts : row.status = "active"

\* the analysed column holds one and the same number in each of its rows,
\* three at least
ConstantNumericColumn ==
    /\ pc = "analyzed"
    /\ Len(column_series.values) >= 3
    /\ \A i \in DOMAIN column_series.values :
          column_series.values[i].kind = "num" /\ column_series.values[i] = column_series.values[1]

FailsWith(name, severity) ==
    /\ Cardinality(ChecksNamed(column_statistics.checks, name)) = 1
    /\ ~CheckNamed(column_statistics.checks, name).passed
    /\ CheckNamed(column_statistics.checks, name).severity = severity

\* what a constant column yields apart from skewness and kurtosis
ConstantColumnFindings ==
    /\ FailsWith("low_variance", "warning")
    /\ FailsWith("dominant_category", "critical")
    /\ \A name \in OutlierChecks : PresentAsSkipped(column_statistics.checks, name)
    /\ column_statistics.issue_summary.critical_checks = 1

\* C23: for a numeric column whose values are all the same number, with at
\* least 3 rows and no nulls, low_variance fails with severity 'warning',
\* dominant_category fails with severity 'critical', z_score_outliers,
\* iqr_outliers and modified_z_score are skipped, skewness and kurtosis are
\* skipped with severity 'info', and issue_summary.critical_checks = 1.
C23_ConstantColumn ==
    ConstantNumericColumn =>
        /\ ConstantColumnFindings
        /\ PresentAsSkipped(column_statistics.checks, "skewness")
        /\ PresentAsSkipped(column_statistics.checks, "kurtosis")

\* what the run yields: skewness is evaluated and passes, kurtosis is
\* evaluated and passes from 4 rows on and is skipped with 3
C23_MomentsOfConstantColumn ==
    ConstantNumericColumn =>
        /\ ConstantColumnFindings
        /\ RanNamed("skewness") # {}
        /\ \A check \in RanNamed("skewness") \cup RanNamed("kurtosis") :
              check.passed /\ check.severity = "info"
        /\ (RanNamed("kurtosis") = {}) <=> (Len(column_series.values) = 3)
        /\ Cardinality(ChecksNamed(column_statistics.checks, "kurtosis")) = 1

\* a constant column of five rows was analysed
C23_FiveEqualValues == ConstantNumericColumn /\ Len(column_series.values) = 5

\* the length of the longest run of nulls of the analysed column, and the
\* starts of its runs of that length
LongestNullRun == LongestRunOf(NullRows)
LongestNullRunStarts ==
    {r \in NullRows : (r - 1) \notin NullRows
                      /\ (r..(r + LongestNullRun - 1)) \subseteq NullRows}

\* the longest run of nulls has 5 rows or more and a tenth of the rows or more
LongNullRun ==
    /\ pc = "analyzed"
    /\ LongestNullRun >= 5
    /\ 10 * LongestNullRun >= Len(column_series.values)

\* C24: when the longest contiguous null run of a column with the default
\* index has length L >= max(5, 10% of rows), null_run_length fails,
\* metrics.longest_null_run = L and the locations hold exactly one row range,
\* from the first row of the earliest run of length L to that row + L - 1, with
\* count = total_count = max_consecutive_run = L, whatever other null runs
\* there are.
C24_LongestNullRunLocated ==
    LongNullRun =>
        LET check == CheckNamed(column_statistics.checks, "null_run_length")
        IN  /\ ~check.passed
            /\ column_statistics.metrics.longest_null_run = LongestNullRun
            /\ Len(check.locations.row_ranges) = 1
            /\ check.locations.row_ranges[1].start = MinOf(LongestNullRunStarts)
            /\ check.locations.row_ranges[1]["end"]
                  = MinOf(LongestNullRunStarts) + LongestNullRun - 1
            /\ check.locations.row_ranges[1].count = LongestNullRun
            /\ check.locations.total_count = LongestNullRun
            /\ check.locations.max_consecutive_run = LongestNullRun

\* the column has two runs of the longest length: the earlier one is reported
C24_Witness == LongNullRun /\ Cardinality(LongestNullRunStarts) = 2

\* a shorter run of nulls comes before the longest one
C24_WitnessShorterRunFirst ==
    /\ LongNullRun
    /\ \E r \in NullRows : r < MinOf(LongestNullRunStarts)

\* the failing checks of the analysed column that flag rows
FailingEvidenceChecks ==
    {column_statistics.checks[i] : i \in
        {j \in DOMAIN column_statistics.checks :
            /\ ~column_statistics.checks[j].passed
            /\ column_statistics.checks[j].name \in EvidenceChecks}}

\* the reported positions are pairwise distinct and as many as total_count
PositionsDistinctAndCounted(check) ==
    check.locations.total_count = Cardinality(CoveredRows(check))

\* C26: for any column index, also one in which several rows share a key,
\* every occurrence a check flags is resolved to the position of the offending
\* row itself: the reported positions are pairwise distinct, as many as
\* locations.total_count, and each holds a flagged value (a null, for a
\* failing null_ratio check).
C26_FlaggedRowsLocated ==
    pc = "analyzed" =>
        \A check \in FailingEvidenceChecks :
            PositionsDistinctAndCounted(check) /\ OffendersLocated(check)

\* what holds with repeated keys: no position is reported twice and
\* total_count is the number of reported positions
C26_NoDoubleCounting ==
    pc = "analyzed" => \A check \in FailingEvidenceChecks : PositionsDistinctAndCounted(check)

\* a failing null_ratio check reports a row that holds no null
C26_NonNullRowReported ==
    /\ pc = "analyzed"
    /\ \E check \in FailingEvidenceChecks :
          check.name = "null_ratio" /\ ~(CoveredRows(check) \subseteq NullRows)

\* the op was asked for an explicit list of tables, one of them without a file
\* in the dataset directory
TableFileMissing ==
    /\ pc \in {"loaded", "failed"}
    /\ dataset_dir.exists
    /\ op_config.kind = "list"
    /\ \E i \in DOMAIN op_config.names : op_config.names[i] \notin dataset_dir.files

\* C25: when CSVConnector.load_dataset is asked for an explicit list of tables
\* and the CSV file of any of them is missing, it returns no dataset at all,
\* the error it raises is a SourceConnectorError, and load_dataset_op converts
\* it into a job Failure.
C25_MissingTableFails ==
    TableFileMissing =>
        /\ op_outcome.connector.raised # ""
        /\ loaded_dataset = <<>>
        /\ isinstance(op_outcome.connector.raised, "SourceConnectorError")
        /\ op_outcome.raised = "Failure"

\* what holds: no dataset is returned, the error is a DatasetNotFoundError,
\* which is not a SourceConnectorError, and it leaves the op unconverted
C25_MissingTableRaisesNotFound ==
    TableFileMissing =>
        /\ op_outcome.connector.raised = "DatasetNotFoundError"
        /\ loaded_dataset = <<>>
        /\ pc = "failed"
        /\ op_outcome.raised = "DatasetNotFoundError"

\* one of two tables asked for has a file and the other has none
C25_OneOfTwoMissing ==
    /\ TableFileMissing
    /\ \E i \in DOMAIN op_config.names : op_config.names[i] \in dataset_dir.files

\* a connector error that the op does convert into a Failure
C25_FailureRaised == pc = "failed" /\ op_outcome.raised = "Failure"

\* the names of the checks of the analysed column, in the order of the list
CheckNameList ==
    [i \in DOMAIN column_statistics.checks |-> column_statistics.checks[i].name]

CommonBattery ==
    <<"null_ratio", "null_run_length", "distinct_ratio", "dominant_category", "entropy">>
NumericBattery ==
    <<"low_variance", "z_score_outliers", "iqr_outliers", "modified_z_score", "skewness",
      "kurtosis">>

\* C27: for every input column (empty, all-null, categorical or numeric) the
\* checks list holds, in this order and each exactly once, null_ratio,
\* null_run_length, distinct_ratio, dominant_category, entropy, then
\* numeric_profile alone when the column is categorical or low_variance,
\* z_score_outliers, iqr_outliers, modified_z_score, skewness, kurtosis when it
\* is numeric; check names are unique within a column.
C27_BatteryCompleteAndOrdered ==
    pc = "analyzed" =>
        /\ CheckNameList = CommonBattery \o (IF NumericCells = {} THEN <<"numeric_profile">>
                                             ELSE NumericBattery)
        /\ (NumericCells = {}) <=> (column_statistics.metrics.inferred_type = "categorical")
        /\ \A i, j \in DOMAIN CheckNameList : CheckNameList[i] = CheckNameList[j] => i = j

\* a column of nulls only was analysed
C27_Witness ==
    /\ pc = "analyzed"
    /\ Len(column_series.values) >= 2
    /\ NonNullRows = {}
    /\ Len(column_statistics.checks) = 6

\* the empty column and a numeric column with nulls were analysed
C27_WitnessEmpty == pc = "analyzed" /\ column_series.values = <<>>
C27_WitnessNumeric == pc = "analyzed" /\ NumericCells # {} /\ NullRows # {}

\* C28: the z_score_outliers check never has severity 'critical': the share
\* of values with |x - mean| / std_dev > 3, both taken over the same values
\* with ddof = 0, is always below 0.15, so a failing z_score_outliers check has
\* severity 'warning'.
C28_ZScoreNeverCritical ==
    pc = "analyzed" =>
        \A check \in RanNamed("z_score_outliers") :
            /\ check.severity # "critical"
            /\ ~check.passed => check.severity = "warning"
            /\ RatLt(check.metrics.outlier_ratio, OUTLIER_RATIO_CRITICAL_THRESHOLD)
            /\ 100 * check.metrics.outlier_count < 15 * Cardinality(NumericCells)

\* the z_score_outliers check of the analysed column fails
C28_Witness ==
    /\ pc = "analyzed"
    /\ \E check \in RanNamed("z_score_outliers") : ~check.passed /\ check.metrics.outlier_count >= 1

\* C29: the distinct_ratio check never has severity 'critical': whenever it is
\* evaluated the column has a non-null value, so distinct_count >= 1 and
\* distinct_ratio > 0, the escalation at ratio 0 is unreachable and every
\* failing distinct_ratio check has severity 'warning'.
C29_DistinctRatioNeverCritical ==
    pc = "analyzed" =>
        /\ \A i \in ChecksNamed(column_statistics.checks, "distinct_ratio") :
              /\ column_statistics.checks[i].severity # "critical"
              /\ ~column_statistics.checks[i].passed
                    => column_statistics.checks[i].severity = "warning"
        /\ \A check \in RanNamed("distinct_ratio") :
              /\ NonNullRows # {}
              /\ check.metrics.distinct_count >= 1
              /\ check.metrics.distinct_ratio.num > 0

\* the distinct_ratio check of the analysed column fails
C29_Witness ==
    /\ pc = "analyzed"
    /\ \E check \in RanNamed("distinct_ratio") : ~check.passed

\* no two candidates of the run share their key (table, column, check_name)
KeysAreUnique ==
    \A i, j \in DOMAIN alert_candidates :
        alert_key(alert_candidates[i]) = alert_key(alert_candidates[j]) => i = j

\* no two candidates of the run share their name
NamesAreUnique ==
    \A i, j \in DOMAIN alert_candidates :
        alert_candidates[i].name = alert_candidates[j].name => i = j

\* the table and column names of the loaded dataset
DatasetNames ==
    {loaded_dataset[t].name : t \in DOMAIN loaded_dataset}
      \cup UNION {SeqRange(loaded_dataset[t].df.columns) : t \in DOMAIN loaded_dataset}
HasToken(name, token) == \E i \in DOMAIN name : name[i] = token

\* C30 as stated: within one run no two AlertCandidates share the same key
\* (table, column, check_name) and no two share the same name string, for any
\* table and column names of the dataset, also names that contain '.' or '::'.
C30_AsStated == pc = "alerted" => KeysAreUnique /\ NamesAreUnique

\* C30 (as amended): within one run no two AlertCandidates share the same key,
\* for any table and column names; and no two share the same name string when
\* no table or column name of the dataset contains a '.', names that contain
\* '::' included.
C30_AlertIdentity ==
    pc = "alerted" =>
        /\ KeysAreUnique
        /\ (\A name \in DatasetNames : ~HasToken(name, ".")) => NamesAreUnique

\* alerts of two tables whose names hold a '::' and no '.'
C30_Witness ==
    /\ pc = "alerted"
    /\ Len(alert_candidates) >= 4
    /\ \A name \in DatasetNames : ~HasToken(name, ".")
    /\ \E name \in DatasetNames : HasToken(name, ":")

\* two candidates with different keys and the same name
C30_SameNameTwice ==
    /\ pc = "alerted"
    /\ KeysAreUnique
    /\ ~NamesAreUnique
====
